---- MODULE Spec2Model ----
(***************************************************************************)
(* Stream Runtime (GstMediaStream, run_pipeline, the frame-sink adapter)   *)
(* and Publishing Manager (LKParticipant) of livekit-gstreamer.            *)
(*                                                                         *)
(* One GstMediaStream and one LKParticipant are driven by one caller: the  *)
(* API takes &mut self, so calls on them never overlap.  Concurrent with   *)
(* the caller run the background run_pipeline task of every run, the       *)
(* engine's streaming thread (the appsink callback), the forwarding tasks  *)
(* and the external subscribers.  The caller's steps are cut at its await  *)
(* points: handle.task.await in stop() and publish_track(..).await in      *)
(* publish_stream; code between two await points touches nothing another   *)
(* thread reads before the next one and is one step.                       *)
(*                                                                         *)
(* A "run" is one successful pipeline build of start(); run r owns         *)
(* pipeline r, task r and the two broadcast channels created by that       *)
(* start().  Track identifiers (random_string, 16 random alphanumerics)    *)
(* are modelled as fresh numbers.                                          *)
(***************************************************************************)
EXTENDS Integers, Sequences, FiniteSets, TLC

\* Bounds of the model.
MaxRuns == 2
MaxFrames == 2
MaxSubs == 2
MaxTracks == 2

\* broadcast::channel::<Arc<Buffer>>(1)
FrameCap == 1

None == 0
Runs == 1..MaxRuns
Tracks == 1..MaxTracks

VARIABLES
    handle,            \* GstMediaStream.handle: None or the run of the StreamHandle
    dropped,           \* the GstMediaStream has been dropped
    runs,              \* pipelines built so far
    pipeline,          \* [run -> engine state of that run's pipeline]
    task,              \* [run -> state of that run's run_pipeline task]
    eos,               \* [run -> an end-of-stream event was sent into the pipeline]
    frame_tx,          \* [run -> frames sent on the frame broadcast (its tail position)]
    close_tx,          \* [run -> messages sent on the close broadcast]
    sink,              \* what the last new_sample callback did
    subs,              \* receiver pairs returned by subscribe() to external callers
    pc,                \* caller's position
    op,                \* API call in progress, or the last one
    res,               \* its result
    val,               \* the identifier it was given or returned
    taken,             \* stop()'s local `handle`
    eff,               \* what the call did: start() entered, end-of-stream sent, task awaited,
                       \* bus called, task aborted
    sids,              \* track identifiers generated so far
    published_tracks,  \* keys of LKParticipant.published_tracks
    track_task,        \* [track -> state of its forwarding task]
    track_rx,          \* [track -> the receiver pair moved into the forwarding task]
    room,              \* tracks the media bus holds as published
    build,             \* a GstMediaDevice, the call made of it and what it returned
    pads,              \* a deinterleaved audio pipeline's pad-added callback
    tee,               \* the tee branches of a JPEG pipeline built with a record path
    lookup,            \* the backend's enumeration, the device asked of it and the answer
    run,               \* one run_pipeline call: what it meets and how it ends
    sched,             \* the executor: its worker threads and the tasks spawned on it
    frame              \* one frame taken by a video forwarding task and what became of it

vars == <<handle, dropped, runs, pipeline, task, eos, frame_tx, close_tx,
          sink, subs, pc, op, res, val, taken, eff, sids, published_tracks,
          track_task, track_rx, room, build, pads, tee, lookup, run, sched, frame>>

stream_vars == <<handle, dropped, runs, pipeline, task, eos>>
chan_vars == <<frame_tx, close_tx, sink>>
call_vars == <<pc, op, res, val, taken, eff>>
lk_vars == <<sids, published_tracks, track_task, track_rx, room>>
build_vars == <<build>>
pad_vars == <<pads>>
tee_vars == <<tee>>
device_vars == <<build_vars, pad_vars, tee_vars, lookup, run, sched, frame>>

NoRx == [run |-> None, fnext |-> 0, cnext |-> 0, live |-> FALSE]

StreamInit ==
    /\ handle = None
    /\ dropped = FALSE
    /\ runs = 0
    /\ pipeline = [r \in Runs |-> "absent"]
    /\ task = [r \in Runs |-> "absent"]
    /\ eos = [r \in Runs |-> FALSE]
    /\ frame_tx = [r \in Runs |-> 0]
    /\ close_tx = [r \in Runs |-> 0]
    /\ sink = [ret |-> "none", sent |-> FALSE]
    /\ subs = <<>>
    /\ pc = "idle"
    /\ op = "new"
    /\ res = "Ok"
    /\ val = None
    /\ taken = None
    /\ eff = {}
    /\ sids = 0
    /\ published_tracks = {}
    /\ track_task = [t \in Tracks |-> "absent"]
    /\ track_rx = [t \in Tracks |-> NoRx]
    /\ room = {}

\* No device has been asked anything.
NoDevice == [device_class |-> "", listed |-> FALSE, capabilities |-> <<>>]
NoRequest == [fn |-> "none"]
NotBuilt == [result |-> "none", error |-> "", elements |-> <<>>, scans |-> 0]

\* The fields of `build`: the GstMediaDevice asked with what the backend lists
\* for it, the request made of it, and what the request returned.
device == build.device
request == build.request
built == build.built

BuildIdle ==
    build = [device |-> NoDevice, request |-> NoRequest, built |-> NotBuilt]

\* The fields of `pads`: selected_channel of the pipeline, the pads of the
\* pad-added events its deinterleave element has emitted, the pad linked to the
\* sink pad of the queue behind it (if any), the pads on which the callback
\* called link, and "ok" or, once link(..).unwrap() has failed, "panicked".
selected_channel == pads.selected_channel
pad_events == pads.pad_events
queue_peer == pads.queue_peer
link_attempts == pads.link_attempts
callback == pads.callback

\* No pad-added event has been emitted.
PadsIdle ==
    pads = [selected_channel |-> 0, pad_events |-> <<>>, queue_peer |-> {},
            link_attempts |-> <<>>, callback |-> "ok"]

\* The fields of `tee`: frames that have entered the tee, the tee's position in
\* pushing the current frame to its branches, the buffers waiting in the queue
\* before the appsink and in the queue before the file branch, the live receivers
\* of the frame broadcast, whether the file branch is "consuming" or "stalled",
\* the frames the appsink callback has sent and the frames the file branch has
\* taken from its queue.
frames_in == tee.frames_in
tee_at == tee.tee_at
queue_appsink == tee.queue_appsink
queue_file == tee.queue_file
receivers == tee.receivers
recording == tee.recording
delivered == tee.delivered
recorded == tee.recorded

\* No frame has entered the tee.
TeeIdle ==
    tee = [frames_in |-> 0, tee_at |-> "idle", queue_appsink |-> 0, queue_file |-> 0,
           receivers |-> 0, recording |-> "consuming", delivered |-> 0, recorded |-> 0]

\* The fields of `lookup`: what the backend enumerates (the device monitor's
\* devices, the displays), the call made and what it returned.
backend == lookup.backend
call == lookup.call
answer == lookup.answer

\* Nothing has been asked of the backend.
LookupIdle ==
    lookup = [backend |-> [devices |-> <<>>, displays |-> <<>>], call |-> NoRequest,
              answer |-> [result |-> "none"]]

\* The fields of `run`: what the run_pipeline call is given and meets, and what
\* it has done when it ends or waits for the next bus message.
given == run.given
ran == run.ran

\* No run_pipeline call is looked at.
RunIdle ==
    run = [given |-> NoRequest, ran |-> [result |-> "none"]]

\* Nothing has been spawned on the executor.
SchedIdle ==
    sched = [workers |-> 0, tasks |-> <<>>]

\* No frame is looked at.
FrameIdle ==
    frame = [given |-> NoRequest, made |-> [result |-> "none"]]

Init ==
    /\ StreamInit
    /\ BuildIdle
    /\ PadsIdle
    /\ TeeIdle
    /\ LookupIdle
    /\ RunIdle
    /\ SchedIdle
    /\ FrameIdle

----------------------------------------------------------------------------
\* The broadcast channels

\* Frames sent on all runs' frame broadcasts.
RECURSIVE SumTo(_, _)
SumTo(f, n) == IF n = 0 THEN 0 ELSE f[n] + SumTo(f, n - 1)

FramesSent == SumTo(frame_tx, MaxRuns)

TaskDone(r) == task[r] \in {"ok", "err", "panic"}

\* Every reference to run r's pipeline and senders has been dropped: the
\* StreamHandle (in self.handle, or in stop()'s local while it awaits) and the
\* clones run_pipeline holds until it ends.  The appsink callback's sender lives
\* in the pipeline and goes with it.
released(r) == handle # r /\ taken # r /\ TaskDone(r)

\* Live receivers of run r's channels: external subscribers and forwarding tasks.
receiver_count(r) ==
    Cardinality({i \in DOMAIN subs : subs[i].live /\ subs[i].run = r})
    + Cardinality({t \in Tracks : track_rx[t].live /\ track_rx[t].run = r})

\* broadcast::Sender::send on a channel of capacity FrameCap, as a new tail: it
\* never waits, the value takes the next position and the oldest retained value
\* is overwritten.  The value at position p is the (p+1)-th buffer sent.
send(tail) == tail + 1

\* Oldest position the channel still retains.
oldest(tail) == IF tail > FrameCap THEN tail - FrameCap ELSE 0

\* broadcast::Receiver::recv of a receiver at position next: the outcome and the
\* receiver's new position.
recv(tail, next, isClosed) ==
    IF next < oldest(tail)
    THEN [kind |-> "Lagged", val |-> oldest(tail) - next, next |-> oldest(tail)]
    ELSE IF next < tail
    THEN [kind |-> "Ok", val |-> next + 1, next |-> next + 1]
    ELSE IF isClosed
    THEN [kind |-> "Closed", val |-> 0, next |-> next]
    ELSE [kind |-> "Pending", val |-> 0, next |-> next]

\* Mutant of new_receivers: a new receiver starts at the oldest retained message.
new_receivers_replay(r) ==
    [run |-> r, fnext |-> oldest(frame_tx[r]), cnext |-> oldest(close_tx[r]), live |-> TRUE]

\* Sender::subscribe on both senders of run r: the new receivers see only what is
\* sent after this point.
new_receivers(r) ==
    [run |-> r, fnext |-> frame_tx[r], cnext |-> close_tx[r], live |-> TRUE]

----------------------------------------------------------------------------
\* GstMediaStream

\* Mutant of has_started: true once the stream has ever been started.
has_started_once == runs > 0

has_started == handle # None

\* stop() is entered from start() unless the caller called stop() itself.
entered(o) == IF o = "stop" THEN {} ELSE {"start"}

\* Where stop() goes when it is over: back to the caller of stop(), or on in start().
stop_return(o) ==
    IF o = "stop"
    THEN pc' = "idle" /\ res' = "Ok"
    ELSE pc' = "start_build" /\ res' = "pending"

\* Mutant of stop_enter: a stop() that reports an error when nothing was started.
stop_enter_strict(o) ==
    /\ op' = o
    /\ val' = None
    /\ IF handle # None
       THEN /\ taken' = handle
            /\ handle' = None
            /\ eos' = [eos EXCEPT ![handle] = TRUE]
            /\ eff' = entered(o) \cup {"eos", "await"}
            /\ pc' = "stop_await"
            /\ res' = "pending"
       ELSE /\ taken' = None
            /\ handle' = None
            /\ eos' = eos
            /\ eff' = entered(o)
            /\ pc' = "idle"
            /\ res' = "Err"

\* Mutant of stop_enter: the Handle is taken and awaited without an end-of-stream
\* event.
stop_enter_no_eos(o) ==
    /\ op' = o
    /\ val' = None
    /\ eos' = eos
    /\ IF handle # None
       THEN /\ taken' = handle
            /\ handle' = None
            /\ eff' = entered(o) \cup {"await"}
            /\ pc' = "stop_await"
            /\ res' = "pending"
       ELSE /\ taken' = None
            /\ handle' = None
            /\ eff' = entered(o)
            /\ stop_return(o)

\* stop(), up to the await: take the Handle and send end-of-stream; without a
\* Handle, clear it and return.
stop_enter(o) ==
    /\ op' = o
    /\ val' = None
    /\ IF handle # None
       THEN /\ taken' = handle
            /\ handle' = None
            /\ eos' = [eos EXCEPT ![handle] = TRUE]
            /\ eff' = entered(o) \cup {"eos", "await"}
            /\ pc' = "stop_await"
            /\ res' = "pending"
       ELSE /\ taken' = None
            /\ handle' = None
            /\ eos' = eos
            /\ eff' = entered(o)
            /\ stop_return(o)

stop ==
    /\ pc = "idle"
    /\ ~dropped
    /\ stop_enter("stop")
    /\ UNCHANGED <<dropped, runs, pipeline, task, subs>>
    /\ UNCHANGED <<chan_vars, lk_vars>>
    /\ UNCHANGED device_vars

\* Mutant of stop_await: the task is detached instead of awaited.
stop_await_detached ==
    /\ pc = "stop_await"
    /\ taken' = None
    /\ handle' = None
    /\ stop_return(op)
    /\ UNCHANGED <<op, val, eff, dropped, runs, pipeline, task, eos, subs>>
    /\ UNCHANGED <<chan_vars, lk_vars>>
    /\ UNCHANGED device_vars

\* Mutant of stop_await: the task's result is propagated (`handle.task.await??`).
stop_await_propagate ==
    /\ pc = "stop_await"
    /\ TaskDone(taken)
    /\ taken' = None
    /\ handle' = None
    /\ IF task[taken] = "ok"
       THEN stop_return(op)
       ELSE pc' = "idle" /\ res' = "Err"
    /\ UNCHANGED <<op, val, eff, dropped, runs, pipeline, task, eos, subs>>
    /\ UNCHANGED <<chan_vars, lk_vars>>
    /\ UNCHANGED device_vars

\* `let _ = handle.task.await;` completes when the task has ended, whatever its
\* result; then the local Handle is dropped and self.handle = None.
stop_await ==
    /\ pc = "stop_await"
    /\ TaskDone(taken)
    /\ taken' = None
    /\ handle' = None
    /\ stop_return(op)
    /\ UNCHANGED <<op, val, eff, dropped, runs, pipeline, task, eos, subs>>
    /\ UNCHANGED <<chan_vars, lk_vars>>
    /\ UNCHANGED device_vars

\* Mutant of start: the implicit stop() is left out.
start_without_stop ==
    /\ pc = "idle"
    /\ ~dropped
    /\ runs < MaxRuns
    /\ op' = "start"
    /\ val' = None
    /\ eff' = {"start"}
    /\ res' = "pending"
    /\ pc' = "start_build"
    /\ UNCHANGED <<taken, handle, eos>>
    /\ UNCHANGED <<dropped, runs, pipeline, task, subs>>
    /\ UNCHANGED <<chan_vars, lk_vars>>
    /\ UNCHANGED device_vars

\* start(), its first line: self.stop().await?
start ==
    /\ pc = "idle"
    /\ ~dropped
    /\ runs < MaxRuns
    /\ stop_enter("start")
    /\ UNCHANGED <<dropped, runs, pipeline, task, subs>>
    /\ UNCHANGED <<chan_vars, lk_vars>>
    /\ UNCHANGED device_vars

\* publish_stream after its start-if-needed step, up to the bus call:
\* stream.subscribe().unwrap() on Handle h, the bus source and track,
\* random_string(..) and tokio::spawn(Self::video_track_task(..)) / audio_track_task(..)
pub_subscribe(h) ==
    IF h = None
    THEN /\ pc' = "panicked"
         /\ res' = "panic"
         /\ UNCHANGED <<sids, track_task, track_rx>>
    ELSE /\ sids' = sids + 1
         /\ track_rx' = [track_rx EXCEPT ![sids + 1] = new_receivers(h)]
         /\ track_task' = [track_task EXCEPT ![sids + 1] = "running"]
         /\ pc' = "pub_publish"
         /\ res' = "pending"

\* Mutant of start_build: the new StreamHandle is not stored in self.handle.
start_build_not_installed(outcome) ==
    /\ pc = "start_build"
    /\ IF outcome = "Ok"
       THEN /\ runs' = runs + 1
            /\ pipeline' = [pipeline EXCEPT ![runs + 1] = "built"]
            /\ task' = [task EXCEPT ![runs + 1] = "spawned"]
            /\ handle' = None
            /\ IF op = "start"
               THEN /\ pc' = "idle"
                    /\ res' = "Ok"
                    /\ UNCHANGED <<sids, track_task, track_rx>>
               ELSE pub_subscribe(None)
       ELSE /\ UNCHANGED <<runs, pipeline, task, handle, sids, track_task, track_rx>>
            /\ pc' = "idle"
            /\ res' = "Err"
    /\ UNCHANGED <<op, val, taken, eff, dropped, eos, subs, published_tracks, room>>
    /\ UNCHANGED chan_vars
    /\ UNCHANGED device_vars

\* Mutant of start_build: the task is spawned on an unchecked pipeline before the
\* build result is looked at.
start_build_spawn_first(outcome) ==
    /\ pc = "start_build"
    /\ runs' = runs + 1
    /\ task' = [task EXCEPT ![runs + 1] = "spawned"]
    /\ IF outcome = "Ok"
       THEN /\ pipeline' = [pipeline EXCEPT ![runs + 1] = "built"]
            /\ handle' = runs + 1
            /\ IF op = "start"
               THEN /\ pc' = "idle"
                    /\ res' = "Ok"
                    /\ UNCHANGED <<sids, track_task, track_rx>>
               ELSE pub_subscribe(runs + 1)
       ELSE /\ UNCHANGED <<pipeline, handle, sids, track_task, track_rx>>
            /\ pc' = "idle"
            /\ res' = "Err"
    /\ UNCHANGED <<op, val, taken, eff, dropped, eos, subs, published_tracks, room>>
    /\ UNCHANGED chan_vars
    /\ UNCHANGED device_vars

\* Mutant of start_build: a successful start() moves the receivers of the running
\* forwarding tasks to the new run's senders.
start_build_resubscribe(outcome) ==
    /\ pc = "start_build"
    /\ IF outcome = "Ok"
       THEN /\ runs' = runs + 1
            /\ pipeline' = [pipeline EXCEPT ![runs + 1] = "built"]
            /\ task' = [task EXCEPT ![runs + 1] = "spawned"]
            /\ handle' = runs + 1
            /\ IF op = "start"
               THEN /\ pc' = "idle"
                    /\ res' = "Ok"
                    /\ track_rx' = [t \in Tracks |->
                                       IF track_rx[t].live
                                       THEN new_receivers(runs + 1)
                                       ELSE track_rx[t]]
                    /\ UNCHANGED <<sids, track_task>>
               ELSE pub_subscribe(runs + 1)
       ELSE /\ UNCHANGED <<runs, pipeline, task, handle, sids, track_task, track_rx>>
            /\ pc' = "idle"
            /\ res' = "Err"
    /\ UNCHANGED <<op, val, taken, eff, dropped, eos, subs, published_tracks, room>>
    /\ UNCHANGED chan_vars
    /\ UNCHANGED device_vars

\* start() after its stop(): GstMediaDevice::from_device_path(..)?, create_dir(..)?,
\* the pipeline build (..)?, tokio::spawn(run_pipeline(..)), self.handle = Some(handle).
\* Nothing after the build can fail.  In publish_stream a failure returns through `?`
\* and a success goes on to subscribe.
start_build(outcome) ==
    /\ pc = "start_build"
    /\ IF outcome = "Ok"
       THEN /\ runs' = runs + 1
            /\ pipeline' = [pipeline EXCEPT ![runs + 1] = "built"]
            /\ task' = [task EXCEPT ![runs + 1] = "spawned"]
            /\ handle' = runs + 1
            /\ IF op = "start"
               THEN /\ pc' = "idle"
                    /\ res' = "Ok"
                    /\ UNCHANGED <<sids, track_task, track_rx>>
               ELSE pub_subscribe(runs + 1)
       ELSE /\ UNCHANGED <<runs, pipeline, task, handle, sids, track_task, track_rx>>
            /\ pc' = "idle"
            /\ res' = "Err"
    /\ UNCHANGED <<op, val, taken, eff, dropped, eos, subs, published_tracks, room>>
    /\ UNCHANGED chan_vars
    /\ UNCHANGED device_vars

\* Mutant of subscribe: the receivers come from the senders of the first run.
subscribe_first_run ==
    /\ pc = "idle"
    /\ ~dropped
    /\ handle = None \/ Len(subs) < MaxSubs
    /\ op' = "subscribe"
    /\ eff' = {}
    /\ IF handle = None
       THEN res' = "None" /\ val' = None /\ subs' = subs
       ELSE /\ res' = "Some"
            /\ val' = Len(subs) + 1
            /\ subs' = Append(subs, new_receivers(1))
    /\ UNCHANGED <<pc, taken>>
    /\ UNCHANGED <<stream_vars, chan_vars, lk_vars>>
    /\ UNCHANGED device_vars

subscribe ==
    /\ pc = "idle"
    /\ ~dropped
    /\ handle = None \/ Len(subs) < MaxSubs
    /\ op' = "subscribe"
    /\ eff' = {}
    /\ IF handle = None
       THEN res' = "None" /\ val' = None /\ subs' = subs
       ELSE /\ res' = "Some"
            /\ val' = Len(subs) + 1
            /\ subs' = Append(subs, new_receivers(handle))
    /\ UNCHANGED <<pc, taken>>
    /\ UNCHANGED <<stream_vars, chan_vars, lk_vars>>
    /\ UNCHANGED device_vars

\* Mutant of drop: the Handle's pipeline is sent end-of-stream, as stop() does,
\* and not set to Null.
drop_send_eos ==
    /\ pc = "idle"
    /\ ~dropped
    /\ dropped' = TRUE
    /\ op' = "drop"
    /\ res' = "Ok"
    /\ val' = None
    /\ eff' = IF handle # None THEN {"eos"} ELSE {}
    /\ handle' = None
    /\ eos' = IF handle # None THEN [eos EXCEPT ![handle] = TRUE] ELSE eos
    /\ UNCHANGED <<pc, taken, runs, task, pipeline, subs>>
    /\ UNCHANGED <<chan_vars, lk_vars>>
    /\ UNCHANGED device_vars

\* impl Drop for GstMediaStream
drop ==
    /\ pc = "idle"
    /\ ~dropped
    /\ dropped' = TRUE
    /\ op' = "drop"
    /\ res' = "Ok"
    /\ val' = None
    /\ eff' = {}
    /\ handle' = None
    /\ pipeline' = IF handle # None THEN [pipeline EXCEPT ![handle] = "null"] ELSE pipeline
    /\ UNCHANGED <<pc, taken, runs, task, eos, subs>>
    /\ UNCHANGED <<chan_vars, lk_vars>>
    /\ UNCHANGED device_vars

----------------------------------------------------------------------------
\* run_pipeline: the background task of run r

\* pipeline.set_state(Playing).unwrap()
run_pipeline_play(r, ok) ==
    /\ task[r] = "spawned"
    /\ IF ok
       THEN /\ task' = [task EXCEPT ![r] = "running"]
            /\ pipeline' = [pipeline EXCEPT ![r] = "playing"]
       ELSE /\ task' = [task EXCEPT ![r] = "panic"]
            /\ pipeline' = [pipeline EXCEPT ![r] = "failed"]
    /\ UNCHANGED <<handle, dropped, runs, eos, subs>>
    /\ UNCHANGED <<chan_vars, call_vars, lk_vars>>
    /\ UNCHANGED device_vars

\* The bus loop ends on message m (Eos, Error, or StateChanged to Null); then
\* pipeline.set_state(Null)? and tx.send(())?, which fails without a receiver.
run_pipeline_end(r, m, nulled) ==
    /\ task[r] = "running"
    /\ m = "null" => pipeline[r] = "null"
    /\ IF ~nulled
       THEN /\ task' = [task EXCEPT ![r] = "err"]
            /\ UNCHANGED <<pipeline, close_tx>>
       ELSE /\ pipeline' = [pipeline EXCEPT ![r] = "null"]
            /\ IF receiver_count(r) = 0
               THEN task' = [task EXCEPT ![r] = "err"] /\ close_tx' = close_tx
               ELSE /\ task' = [task EXCEPT ![r] = "ok"]
                    /\ close_tx' = [close_tx EXCEPT ![r] = @ + 1]
    /\ UNCHANGED <<handle, dropped, runs, eos, subs, frame_tx, sink>>
    /\ UNCHANGED <<call_vars, lk_vars>>
    /\ UNCHANGED device_vars

----------------------------------------------------------------------------
\* broadcast_appsink: the new_sample callback of run r's appsink

\* Mutant of new_sample: a bounded queue whose send waits while some receiver has
\* not taken the last frame.
new_sample_blocking(r) ==
    /\ pipeline[r] = "playing"
    /\ ~released(r)
    /\ FramesSent < MaxFrames
    /\ \A i \in DOMAIN subs :
          (subs[i].live /\ subs[i].run = r) => subs[i].fnext = frame_tx[r]
    /\ IF receiver_count(r) > 0
       THEN /\ frame_tx' = [frame_tx EXCEPT ![r] = send(@)]
            /\ sink' = [ret |-> "Ok", sent |-> TRUE]
       ELSE /\ frame_tx' = frame_tx
            /\ sink' = [ret |-> "Ok", sent |-> FALSE]
    /\ UNCHANGED <<close_tx, subs>>
    /\ UNCHANGED <<stream_vars, call_vars, lk_vars>>
    /\ UNCHANGED device_vars

\* Mutant of new_sample: the frame is sent without asking for receivers and a
\* failed send is reported to the engine.
new_sample_send_or_fail(r) ==
    /\ pipeline[r] = "playing"
    /\ ~released(r)
    /\ FramesSent < MaxFrames
    /\ IF receiver_count(r) > 0
       THEN /\ frame_tx' = [frame_tx EXCEPT ![r] = send(@)]
            /\ sink' = [ret |-> "Ok", sent |-> TRUE]
       ELSE /\ frame_tx' = frame_tx
            /\ sink' = [ret |-> "Error", sent |-> TRUE]
    /\ UNCHANGED <<close_tx, subs>>
    /\ UNCHANGED <<stream_vars, call_vars, lk_vars>>
    /\ UNCHANGED device_vars

\* The callback on a sample that holds a buffer: tx.receiver_count(), then the
\* send of a copy, whose error (no receiver is left) is discarded with nothing
\* stored; `sent` is whether a copy was made and sent.
new_sample(r) ==
    /\ pipeline[r] = "playing"
    /\ ~released(r)
    /\ FramesSent < MaxFrames
    /\ IF receiver_count(r) > 0
       THEN /\ frame_tx' = [frame_tx EXCEPT ![r] = send(@)]
            /\ sink' = [ret |-> "Ok", sent |-> TRUE]
       ELSE /\ frame_tx' = frame_tx
            /\ sink' = [ret |-> "Ok", sent |-> FALSE]
    /\ UNCHANGED <<close_tx, subs>>
    /\ UNCHANGED <<stream_vars, call_vars, lk_vars>>
    /\ UNCHANGED device_vars

----------------------------------------------------------------------------
\* External subscribers

\* frame_rx.recv().await of subscriber i completes with a frame or a lag
sub_recv(i) ==
    /\ subs[i].live
    /\ LET got == recv(frame_tx[subs[i].run], subs[i].fnext, released(subs[i].run))
       IN  /\ got.kind \in {"Ok", "Lagged"}
           /\ subs' = [subs EXCEPT ![i].fnext = got.next]
    /\ UNCHANGED <<stream_vars, chan_vars, call_vars, lk_vars>>
    /\ UNCHANGED device_vars

\* subscriber i drops its receivers
sub_drop(i) ==
    /\ subs[i].live
    /\ subs' = [subs EXCEPT ![i] = NoRx]
    /\ UNCHANGED <<stream_vars, chan_vars, call_vars, lk_vars>>
    /\ UNCHANGED device_vars

----------------------------------------------------------------------------
\* LKParticipant

\* Mutant of publish_stream: the stream is not started first.
publish_stream_no_start ==
    /\ pc = "idle"
    /\ ~dropped
    /\ sids < MaxTracks
    /\ has_started \/ runs < MaxRuns
    /\ op' = "publish_stream"
    /\ val' = None
    /\ eff' = {}
    /\ UNCHANGED <<taken, handle, eos>>
    /\ pub_subscribe(handle)
    /\ UNCHANGED <<dropped, runs, pipeline, task, subs, published_tracks, room>>
    /\ UNCHANGED chan_vars
    /\ UNCHANGED device_vars

\* Mutant of publish_stream: a stream that already has a published track is
\* refused.
publish_stream_once ==
    /\ pc = "idle"
    /\ ~dropped
    /\ sids < MaxTracks
    /\ has_started \/ runs < MaxRuns
    /\ IF ~has_started
       THEN /\ stop_enter("publish_stream")
            /\ UNCHANGED <<sids, track_task, track_rx>>
       ELSE /\ op' = "publish_stream"
            /\ val' = None
            /\ eff' = {}
            /\ UNCHANGED <<taken, handle, eos>>
            /\ IF published_tracks = {}
               THEN pub_subscribe(handle)
               ELSE /\ pc' = "idle"
                    /\ res' = "Err"
                    /\ UNCHANGED <<sids, track_task, track_rx>>
    /\ UNCHANGED <<dropped, runs, pipeline, task, subs, published_tracks, room>>
    /\ UNCHANGED chan_vars
    /\ UNCHANGED device_vars

\* publish_stream, up to its first await: `if !stream.has_started()
\* { stream.start().await?; }`, and on a started stream the subscription.
publish_stream ==
    /\ pc = "idle"
    /\ ~dropped
    /\ sids < MaxTracks
    /\ has_started \/ runs < MaxRuns
    /\ IF ~has_started
       THEN /\ stop_enter("publish_stream")
            /\ UNCHANGED <<sids, track_task, track_rx>>
       ELSE /\ op' = "publish_stream"
            /\ val' = None
            /\ eff' = {}
            /\ UNCHANGED <<taken, handle, eos>>
            /\ pub_subscribe(handle)
    /\ UNCHANGED <<dropped, runs, pipeline, task, subs, published_tracks, room>>
    /\ UNCHANGED chan_vars
    /\ UNCHANGED device_vars

\* Mutant of pub_publish: the TrackHandle is inserted before the bus answers.
pub_publish_insert_first(accepted) ==
    /\ pc = "pub_publish"
    /\ pc' = "idle"
    /\ eff' = eff \cup {"publish_track"}
    /\ published_tracks' = published_tracks \cup {sids}
    /\ IF accepted
       THEN /\ room' = room \cup {sids}
            /\ res' = "Ok"
            /\ val' = sids
       ELSE /\ UNCHANGED <<room, val>>
            /\ res' = "Err"
    /\ UNCHANGED <<op, taken, sids, track_task, track_rx, subs>>
    /\ UNCHANGED <<stream_vars, chan_vars>>
    /\ UNCHANGED device_vars

\* room.local_participant().publish_track(..).await?, then published_tracks.insert
pub_publish(accepted) ==
    /\ pc = "pub_publish"
    /\ pc' = "idle"
    /\ eff' = eff \cup {"publish_track"}
    /\ IF accepted
       THEN /\ room' = room \cup {sids}
            /\ published_tracks' = published_tracks \cup {sids}
            /\ res' = "Ok"
            /\ val' = sids
       ELSE /\ UNCHANGED <<room, published_tracks, val>>
            /\ res' = "Err"
    /\ UNCHANGED <<op, taken, sids, track_task, track_rx, subs>>
    /\ UNCHANGED <<stream_vars, chan_vars>>
    /\ UNCHANGED device_vars

\* JoinHandle::abort on the forwarding task of track t: a running task is
\* cancelled and its receivers are dropped.
abort(t) ==
    IF track_task[t] = "running"
    THEN /\ track_task' = [track_task EXCEPT ![t] = "aborted"]
         /\ track_rx' = [track_rx EXCEPT ![t] = NoRx]
    ELSE UNCHANGED <<track_task, track_rx>>

\* Mutant of unpublish_track: the bus is asked to unpublish whether or not the
\* identifier is in the mapping.
unpublish_track_unchecked(track_sid, accepted) ==
    /\ pc = "idle"
    /\ op' = "unpublish_track"
    /\ val' = track_sid
    /\ IF accepted
       THEN /\ room' = room \ {track_sid}
            /\ IF track_sid \in published_tracks
               THEN abort(track_sid)
               ELSE UNCHANGED <<track_task, track_rx>>
            /\ eff' = {"unpublish_track", "abort"}
            /\ res' = "Ok"
       ELSE /\ UNCHANGED <<room, track_task, track_rx>>
            /\ eff' = {"unpublish_track"}
            /\ res' = "Err"
    /\ UNCHANGED <<pc, taken, sids, published_tracks, subs>>
    /\ UNCHANGED <<stream_vars, chan_vars>>
    /\ UNCHANGED device_vars

unpublish_track(track_sid, accepted) ==
    /\ pc = "idle"
    /\ op' = "unpublish_track"
    /\ val' = track_sid
    /\ IF track_sid \in published_tracks
       THEN IF accepted
            THEN /\ room' = room \ {track_sid}
                 /\ abort(track_sid)
                 /\ eff' = {"unpublish_track", "abort"}
                 /\ res' = "Ok"
            ELSE /\ UNCHANGED <<room, track_task, track_rx>>
                 /\ eff' = {"unpublish_track"}
                 /\ res' = "Err"
       ELSE /\ UNCHANGED <<room, track_task, track_rx>>
            /\ eff' = {}
            /\ res' = "Ok"
    /\ UNCHANGED <<pc, taken, sids, published_tracks, subs>>
    /\ UNCHANGED <<stream_vars, chan_vars>>
    /\ UNCHANGED device_vars

\* video_track_task / audio_track_task: the close branch of select! completes
\* (a close message, or the close channel is closed) and the loop breaks.
track_task_close(t) ==
    /\ track_task[t] = "running"
    /\ close_tx[track_rx[t].run] > track_rx[t].cnext \/ released(track_rx[t].run)
    /\ track_task' = [track_task EXCEPT ![t] = "ended"]
    /\ track_rx' = [track_rx EXCEPT ![t] = NoRx]
    /\ UNCHANGED <<sids, published_tracks, room, subs>>
    /\ UNCHANGED <<stream_vars, chan_vars, call_vars>>
    /\ UNCHANGED device_vars

\* Mutant of track_task_frame: a receive error leaves the loop.
track_task_frame_break_on_error(t) ==
    /\ track_task[t] = "running"
    /\ LET got == recv(frame_tx[track_rx[t].run], track_rx[t].fnext, released(track_rx[t].run))
       IN  /\ got.kind \in {"Ok", "Lagged"}
           /\ IF got.kind = "Ok"
              THEN /\ track_rx' = [track_rx EXCEPT ![t].fnext = got.next]
                   /\ track_task' = track_task
              ELSE /\ track_rx' = [track_rx EXCEPT ![t] = NoRx]
                   /\ track_task' = [track_task EXCEPT ![t] = "ended"]
    /\ UNCHANGED <<sids, published_tracks, room, subs>>
    /\ UNCHANGED <<stream_vars, chan_vars, call_vars>>
    /\ UNCHANGED device_vars

\* the frame branch of select! completes with a frame or a lag; on a frame the
\* task submits it, on an error it does nothing, and the loop goes round
track_task_frame(t) ==
    /\ track_task[t] = "running"
    /\ LET got == recv(frame_tx[track_rx[t].run], track_rx[t].fnext, released(track_rx[t].run))
       IN  /\ got.kind \in {"Ok", "Lagged"}
           /\ track_rx' = [track_rx EXCEPT ![t].fnext = got.next]
    /\ UNCHANGED <<sids, published_tracks, room, track_task, subs>>
    /\ UNCHANGED <<stream_vars, chan_vars, call_vars>>
    /\ UNCHANGED device_vars

----------------------------------------------------------------------------
\* The stream, its background tasks, the frame sink and external subscribers.
Next ==
    \/ stop
    \/ stop_await
    \/ start
    \/ \E outcome \in {"Ok", "DeviceError", "PipelineError"} : start_build(outcome)
    \/ subscribe
    \/ drop
    \/ \E r \in Runs, ok \in BOOLEAN : run_pipeline_play(r, ok)
    \/ \E r \in Runs, m \in {"eos", "error", "null"}, nulled \in BOOLEAN :
          run_pipeline_end(r, m, nulled)
    \/ \E r \in Runs : new_sample(r)
    \/ \E i \in DOMAIN subs : sub_recv(i)
    \/ \E i \in DOMAIN subs : sub_drop(i)

Spec == Init /\ [][Next]_vars

\* The participant publishing the stream: the caller's stream and participant
\* calls, the background tasks, the frame sink and the forwarding tasks.
NextLK ==
    \/ stop
    \/ stop_await
    \/ start
    \/ \E outcome \in {"Ok", "DeviceError", "PipelineError"} : start_build(outcome)
    \/ drop
    \/ \E r \in Runs, ok \in BOOLEAN : run_pipeline_play(r, ok)
    \/ \E r \in Runs, m \in {"eos", "error", "null"}, nulled \in BOOLEAN :
          run_pipeline_end(r, m, nulled)
    \/ \E r \in Runs : new_sample(r)
    \/ publish_stream
    \/ \E accepted \in BOOLEAN : pub_publish(accepted)
    \/ \E t \in 1..(MaxTracks + 1), accepted \in BOOLEAN : unpublish_track(t, accepted)
    \/ \E t \in Tracks : track_task_close(t)
    \/ \E t \in Tracks : track_task_frame(t)

SpecLK == Init /\ [][NextLK]_vars

\* Tracks published on a stream that also has external subscribers.
MaxPubTracks == 1

\* A published stream that also has external subscribers.
SpecPub == Init /\ [][(Next \/ NextLK) /\ sids' <= MaxPubTracks]_vars

\* Scheduling.  The runtime runs every spawned task and resumes an await whose
\* future is ready; an end-of-stream event sent into a pipeline is answered on its
\* bus, once the pipeline plays, by a message that ends the loop of run_pipeline;
\* select! takes a branch that stays ready.
FairSpec ==
    /\ Spec
    /\ WF_vars(stop_await)
    /\ \A r \in Runs : WF_vars(\E ok \in BOOLEAN : run_pipeline_play(r, ok))
    /\ \A r \in Runs :
          WF_vars(eos[r] /\ \E m \in {"eos", "error", "null"}, nulled \in BOOLEAN :
                               run_pipeline_end(r, m, nulled))

FairLK ==
    /\ SpecLK
    /\ \A t \in Tracks : WF_vars(track_task_close(t))

----------------------------------------------------------------------------
\* GstMediaDevice: the capability predicates and the pipeline builders

\* Longest capability list the backend reports.
MaxCaps == 1

SUPPORTED_VIDEO_CODECS == {"video/x-h264", "image/jpeg"}
SUPPORTED_AUDIO_CODECS == {"audio/x-raw"}

\* Values the requests and the capabilities are drawn from.
VideoCodecs == {"video/x-raw", "video/x-h264", "image/jpeg"}
AudioCodecs == {"audio/x-raw", "audio/mpeg"}
Widths == {640, 1280}
Heights == {480, 720}
VideoRates == {30, 60}
Channels == {1, 2}
RateBounds == {8000, 48000}
AudioRates == {7999, 8000, 48000, 48001}

\* The sizes a backend reports: 640x480 and 1280x720.
ReportedSize(c) == (c.width = 640) <=> (c.height = 480)

VideoCapability ==
    {c \in [kind : {"Video"}, codec : VideoCodecs, width : Widths, height : Heights,
            framerates : {{30}, {30, 60}}] : ReportedSize(c)}
AudioCapability ==
    [kind : {"Audio"}, codec : AudioCodecs, channels : Channels,
     framerates : {b \in RateBounds \X RateBounds : b[1] <= b[2]}]
ScreenCapability ==
    {c \in [kind : {"Screen"}, codec : {"video/x-raw"}, width : Widths, height : Heights,
            framerates : {{30}}] : ReportedSize(c)}
MediaCapability == VideoCapability \cup AudioCapability \cup ScreenCapability

RECURSIVE CapabilityLists(_)
CapabilityLists(n) ==
    IF n = 0 THEN {<<>>}
    ELSE LET shorter == CapabilityLists(n - 1)
         IN  shorter \cup {Append(l, c) : l \in {x \in shorter : Len(x) = n - 1},
                                          c \in MediaCapability}

\* A GstMediaDevice and the backend as it is when the device is asked: `listed`
\* is whether get_gst_device finds the device path, `monitor` whether get_monitor
\* does, `capabilities` what the backend reports for it.  A screen is an entry of
\* the monitor list and no other device is.
Devices ==
    {d \in [device_class : {"Video/Source", "Audio/Source", "Screen/Source"},
            listed : BOOLEAN, monitor : BOOLEAN,
            capabilities : CapabilityLists(MaxCaps)] :
        IF d.device_class = "Screen/Source" THEN ~d.listed ELSE ~d.monitor}

\* The calls made of a device.  `filename` is whether a record path is given,
\* `factory` whether the engine the call meets has the element factories.
VideoRequests ==
    [fn : {"video_pipeline"}, codec : VideoCodecs, width : Widths, height : Heights,
     framerate : VideoRates, filename : BOOLEAN, factory : BOOLEAN]
AudioRequests ==
    [fn : {"audio_pipeline", "deinterleaved_audio_pipeline"}, codec : AudioCodecs,
     channels : Channels, framerate : AudioRates, filename : BOOLEAN, factory : BOOLEAN]
ScreenRequests ==
    [fn : {"screen_share_pipeline"}, codec : {"video/x-raw", "image/jpeg"}, width : Widths,
     height : Heights, framerate : VideoRates, filename : BOOLEAN, factory : BOOLEAN]
SupportsVideoRequests ==
    [fn : {"supports_video"}, codec : VideoCodecs, width : Widths, height : Heights,
     framerate : VideoRates]
SupportsAudioRequests ==
    [fn : {"supports_audio"}, codec : AudioCodecs, channels : Channels,
     framerate : AudioRates]

\* capabilities(): a screen source asks the monitor list and falls back to no
\* capabilities; any other device is looked up with get_gst_device(..).unwrap().
capabilities(d) ==
    IF d.device_class = "Screen/Source"
    THEN [panic |-> FALSE, caps |-> IF d.monitor THEN d.capabilities ELSE <<>>]
    ELSE IF d.listed
         THEN [panic |-> FALSE, caps |-> d.capabilities]
         ELSE [panic |-> TRUE, caps |-> <<>>]

\* Mutant of supports_video: the framerate is not compared.
supports_video_any_rate(d, codec, width, height, framerate) ==
    LET caps == capabilities(d)
    IN  IF caps.panic
        THEN [panic |-> TRUE, ret |-> FALSE, scans |-> 1]
        ELSE IF d.device_class = "Audio/Source"
        THEN [panic |-> FALSE, ret |-> FALSE, scans |-> 1]
        ELSE [panic |-> FALSE, scans |-> 1,
              ret |-> \E i \in DOMAIN caps.caps :
                         /\ caps.caps[i].kind = "Video"
                         /\ caps.caps[i].codec = codec
                         /\ caps.caps[i].width = width
                         /\ caps.caps[i].height = height]

\* supports_video: `let caps = self.capabilities();` comes first, then the class
\* test, then the search over the Video entries.
supports_video(d, codec, width, height, framerate) ==
    LET caps == capabilities(d)
    IN  IF caps.panic
        THEN [panic |-> TRUE, ret |-> FALSE, scans |-> 1]
        ELSE IF d.device_class = "Audio/Source"
        THEN [panic |-> FALSE, ret |-> FALSE, scans |-> 1]
        ELSE [panic |-> FALSE, scans |-> 1,
              ret |-> \E i \in DOMAIN caps.caps :
                         /\ caps.caps[i].kind = "Video"
                         /\ caps.caps[i].codec = codec
                         /\ caps.caps[i].width = width
                         /\ caps.caps[i].height = height
                         /\ framerate \in caps.caps[i].framerates]

\* Mutant of supports_audio: the range bounds are exclusive.
supports_audio_exclusive(d, codec, channels, framerate) ==
    LET caps == capabilities(d)
    IN  IF caps.panic
        THEN [panic |-> TRUE, ret |-> FALSE, scans |-> 1]
        ELSE IF d.device_class = "Video/Source"
        THEN [panic |-> FALSE, ret |-> FALSE, scans |-> 1]
        ELSE [panic |-> FALSE, scans |-> 1,
              ret |-> \E i \in DOMAIN caps.caps :
                         /\ caps.caps[i].kind = "Audio"
                         /\ caps.caps[i].codec = codec
                         /\ caps.caps[i].channels = channels
                         /\ caps.caps[i].framerates[1] < framerate
                         /\ caps.caps[i].framerates[2] > framerate]

supports_audio(d, codec, channels, framerate) ==
    LET caps == capabilities(d)
    IN  IF caps.panic
        THEN [panic |-> TRUE, ret |-> FALSE, scans |-> 1]
        ELSE IF d.device_class = "Video/Source"
        THEN [panic |-> FALSE, ret |-> FALSE, scans |-> 1]
        ELSE [panic |-> FALSE, scans |-> 1,
              ret |-> \E i \in DOMAIN caps.caps :
                         /\ caps.caps[i].kind = "Audio"
                         /\ caps.caps[i].codec = codec
                         /\ caps.caps[i].channels = channels
                         /\ caps.caps[i].framerates[1] <= framerate
                         /\ caps.caps[i].framerates[2] >= framerate]

\* Mutant of supports_screen_share: the rules of supports_video, an allowed codec
\* and the exact size.
supports_screen_share_as_video(d, codec, width, height, framerate) ==
    IF d.device_class # "Screen/Source"
    THEN [panic |-> FALSE, ret |-> FALSE, scans |-> 0]
    ELSE LET caps == capabilities(d)
         IN  [panic |-> FALSE, scans |-> 1,
              ret |-> /\ codec \in SUPPORTED_VIDEO_CODECS
                      /\ \E i \in DOMAIN caps.caps :
                             /\ caps.caps[i].kind = "Screen"
                             /\ caps.caps[i].codec = codec
                             /\ caps.caps[i].width = width
                             /\ caps.caps[i].height = height
                             /\ framerate \in caps.caps[i].framerates]

\* supports_screen_share: the class test comes first, then capabilities(); a Screen
\* entry serves a request no larger than it.
supports_screen_share(d, codec, width, height, framerate) ==
    IF d.device_class # "Screen/Source"
    THEN [panic |-> FALSE, ret |-> FALSE, scans |-> 0]
    ELSE LET caps == capabilities(d)
         IN  [panic |-> FALSE, scans |-> 1,
              ret |-> \E i \in DOMAIN caps.caps :
                         /\ caps.caps[i].kind = "Screen"
                         /\ caps.caps[i].codec = codec
                         /\ caps.caps[i].width >= width
                         /\ caps.caps[i].height >= height
                         /\ framerate \in caps.caps[i].framerates]

\* What a builder returns: Ok with the elements added to the pipeline in link
\* order, a PipelineError with the elements created before it, or a panic.
\* `scans` counts the backend look-ups made on the way.
PipelineError(error, elements, scans) ==
    [result |-> "PipelineError", error |-> error, elements |-> elements, scans |-> scans]
Panicked(elements, scans) ==
    [result |-> "panic", error |-> "", elements |-> elements, scans |-> scans]
Pipeline(elements, scans) ==
    [result |-> "Ok", error |-> "", elements |-> elements, scans |-> scans]

\* get_video_element / get_audio_element, then the first ElementFactory::make:
\* the device is looked up again with get_gst_device(..).unwrap(), and without
\* the element factories the first make after the source fails.
source_then(d, factory, first, elements, scans) ==
    IF ~d.listed
    THEN Panicked(<<>>, scans + 1)
    ELSE IF ~factory
    THEN PipelineError("Failed to create " \o first, <<"source">>, scans + 1)
    ELSE Pipeline(elements, scans + 1)

video_file_branch ==
    <<"queue", "videoconvert", "capsfilter", "x264enc", "h264parse", "mp4mux", "filesink">>
audio_file_branch ==
    <<"queue", "audioconvert", "audioresample", "avenc_aac", "aacparse", "mp4mux", "filesink">>

video_xraw_pipeline(d, filename, factory, scans) ==
    IF filename
    THEN PipelineError("Filename not supported for xraw pipeline", <<>>, scans)
    ELSE source_then(d, factory, "capsfilter", <<"source", "capsfilter", "appsink">>, scans)

\* Mutant of video_xh264_pipeline: a record path adds the file branch behind a tee.
video_xh264_pipeline_recording(d, filename, factory, scans) ==
    source_then(d, factory, "capsfilter",
                IF filename
                THEN <<"source", "capsfilter", "h264parse", "avdec_h264", "tee", "queue",
                       "appsink">> \o video_file_branch
                ELSE <<"source", "capsfilter", "h264parse", "avdec_h264", "appsink">>,
                scans)

video_xh264_pipeline(d, filename, factory, scans) ==
    IF filename
    THEN PipelineError("Filename not supported for H264 pipeline", <<>>, scans)
    ELSE source_then(d, factory, "capsfilter",
                     <<"source", "capsfilter", "h264parse", "avdec_h264", "appsink">>, scans)

\* Mutant of image_jpeg_pipeline: a record path puts the file branch in the place
\* of the appsink branch.
image_jpeg_pipeline_file_only(d, filename, factory, scans) ==
    source_then(d, factory, "capsfilter",
                <<"source", "capsfilter", "jpegdec", "videoconvert", "capsfilter", "tee">>
                    \o (IF filename THEN video_file_branch ELSE <<"queue", "appsink">>),
                scans)

image_jpeg_pipeline(d, filename, factory, scans) ==
    source_then(d, factory, "capsfilter",
                <<"source", "capsfilter", "jpegdec", "videoconvert", "capsfilter", "tee",
                  "queue", "appsink">> \o (IF filename THEN video_file_branch ELSE <<>>),
                scans)

audio_xraw_pipeline(d, filename, factory, scans) ==
    source_then(d, factory, "audioconvert",
                <<"source", "audioconvert", "capsfilter", "tee", "queue", "appsink">>
                    \o (IF filename THEN audio_file_branch ELSE <<>>),
                scans)

audio_deinterleaved_pipeline(d, filename, factory, scans) ==
    source_then(d, factory, "audioconvert",
                <<"source", "audioconvert", "capsfilter", "deinterleave", "queue", "tee",
                  "queue", "appsink">> \o (IF filename THEN audio_file_branch ELSE <<>>),
                scans)

\* Mutant of video_pipeline: the builder is entered before the request is checked.
video_pipeline_build_first(d, codec, width, height, framerate, filename, factory) ==
    LET p == IF codec = "video/x-raw" THEN video_xraw_pipeline(d, filename, factory, 0)
             ELSE IF codec = "video/x-h264" THEN video_xh264_pipeline(d, filename, factory, 0)
             ELSE image_jpeg_pipeline(d, filename, factory, 0)
    IN  IF p.result # "Ok"
        THEN p
        ELSE IF d.device_class = "Audio/Source"
        THEN PipelineError("Device is an audio source", p.elements, p.scans)
        ELSE IF codec \notin SUPPORTED_VIDEO_CODECS
        THEN PipelineError("Unsupported codec", p.elements, p.scans)
        ELSE LET can_support == supports_video(d, codec, width, height, framerate)
             IN  IF can_support.panic
                 THEN Panicked(p.elements, p.scans + can_support.scans)
                 ELSE IF ~can_support.ret
                 THEN PipelineError("Device does not support requested configuration",
                                    p.elements, p.scans + can_support.scans)
                 ELSE p

video_pipeline(d, codec, width, height, framerate, filename, factory) ==
    IF d.device_class = "Audio/Source"
    THEN PipelineError("Device is an audio source", <<>>, 0)
    ELSE IF codec \notin SUPPORTED_VIDEO_CODECS
    THEN PipelineError("Unsupported codec", <<>>, 0)
    ELSE LET can_support == supports_video(d, codec, width, height, framerate)
         IN  IF can_support.panic
             THEN Panicked(<<>>, can_support.scans)
             ELSE IF ~can_support.ret
             THEN PipelineError("Device does not support requested configuration",
                                <<>>, can_support.scans)
             ELSE IF codec = "video/x-raw"
             THEN video_xraw_pipeline(d, filename, factory, can_support.scans)
             ELSE IF codec = "video/x-h264"
             THEN video_xh264_pipeline(d, filename, factory, can_support.scans)
             ELSE IF codec = "image/jpeg"
             THEN image_jpeg_pipeline(d, filename, factory, can_support.scans)
             ELSE PipelineError("Failed to create pipeline", <<>>, can_support.scans)

\* audio_pipeline and deinterleaved_audio_pipeline make the same three checks and
\* differ in the builder they end in.
audio_pipeline(d, fn, codec, channels, framerate, filename, factory) ==
    IF d.device_class = "Video/Source"
    THEN PipelineError("Device is a video source", <<>>, 0)
    ELSE IF codec \notin SUPPORTED_AUDIO_CODECS
    THEN PipelineError("Unsupported codec", <<>>, 0)
    ELSE LET can_support == supports_audio(d, codec, channels, framerate)
         IN  IF can_support.panic
             THEN Panicked(<<>>, can_support.scans)
             ELSE IF ~can_support.ret
             THEN PipelineError("Device does not support requested configuration",
                                <<>>, can_support.scans)
             ELSE IF fn = "audio_pipeline"
             THEN audio_xraw_pipeline(d, filename, factory, can_support.scans)
             ELSE audio_deinterleaved_pipeline(d, filename, factory, can_support.scans)

\* get_screen_element (linux): the monitor is looked up again, ximagesrc is made,
\* and the monitor's first capability has to be a Screen one.
get_screen_element(d, factory, scans) ==
    IF ~d.monitor
    THEN [result |-> "DeviceError", error |-> "No screen found", elements |-> <<>>,
          scans |-> scans + 1]
    ELSE IF ~factory
    THEN PipelineError("Failed to create ximagesrc", <<>>, scans + 1)
    ELSE IF d.capabilities = <<>> \/ Head(d.capabilities).kind # "Screen"
    THEN PipelineError("No screen capability found", <<"source">>, scans + 1)
    ELSE Pipeline(<<"source">>, scans + 1)

screen_share_pipeline(d, codec, width, height, framerate, filename, factory) ==
    IF d.device_class # "Screen/Source"
    THEN PipelineError("Device is not a screen source", <<>>, 0)
    ELSE LET can_support == supports_screen_share(d, codec, width, height, framerate)
         IN  IF ~can_support.ret
             THEN PipelineError("Device does not support requested configuration",
                                <<>>, can_support.scans)
             ELSE LET element == get_screen_element(d, factory, can_support.scans)
                  IN  IF element.result # "Ok"
                      THEN element
                      ELSE Pipeline(<<"source", "videoconvert", "videoscale", "capsfilter",
                                      "tee", "queue", "appsink">>
                                        \o (IF filename THEN video_file_branch ELSE <<>>),
                                    element.scans)

\* The value of a capability predicate as a call result.
Answer(s) ==
    [result |-> IF s.panic THEN "panic" ELSE IF s.ret THEN "true" ELSE "false",
     error |-> "", elements |-> <<>>, scans |-> s.scans]

stream_idle == <<stream_vars, chan_vars, call_vars, lk_vars, subs>>

InitBuild ==
    /\ StreamInit
    /\ build \in [device : Devices, request : {NoRequest}, built : {NotBuilt}]
    /\ PadsIdle
    /\ TeeIdle
    /\ LookupIdle
    /\ RunIdle
    /\ SchedIdle
    /\ FrameIdle

call_video_pipeline(r) ==
    /\ request = NoRequest
    /\ build' = [build EXCEPT
                    !.request = r,
                    !.built = video_pipeline(device, r.codec, r.width, r.height,
                                             r.framerate, r.filename, r.factory)]
    /\ UNCHANGED <<stream_idle, pad_vars, tee_vars, lookup, run, sched, frame>>

call_audio_pipeline(r) ==
    /\ request = NoRequest
    /\ build' = [build EXCEPT
                    !.request = r,
                    !.built = audio_pipeline(device, r.fn, r.codec, r.channels,
                                             r.framerate, r.filename, r.factory)]
    /\ UNCHANGED <<stream_idle, pad_vars, tee_vars, lookup, run, sched, frame>>

call_screen_share_pipeline(r) ==
    /\ request = NoRequest
    /\ build' = [build EXCEPT
                    !.request = r,
                    !.built = screen_share_pipeline(device, r.codec, r.width, r.height,
                                                    r.framerate, r.filename, r.factory)]
    /\ UNCHANGED <<stream_idle, pad_vars, tee_vars, lookup, run, sched, frame>>

call_supports_video(r) ==
    /\ request = NoRequest
    /\ build' = [build EXCEPT
                    !.request = r,
                    !.built = Answer(supports_video(device, r.codec, r.width, r.height,
                                                    r.framerate))]
    /\ UNCHANGED <<stream_idle, pad_vars, tee_vars, lookup, run, sched, frame>>

call_supports_audio(r) ==
    /\ request = NoRequest
    /\ build' = [build EXCEPT
                    !.request = r,
                    !.built = Answer(supports_audio(device, r.codec, r.channels,
                                                    r.framerate))]
    /\ UNCHANGED <<stream_idle, pad_vars, tee_vars, lookup, run, sched, frame>>

\* One device, asked one thing.
NextBuild ==
    \/ \E r \in VideoRequests : call_video_pipeline(r)
    \/ \E r \in AudioRequests : call_audio_pipeline(r)
    \/ \E r \in ScreenRequests : call_screen_share_pipeline(r)
    \/ \E r \in SupportsVideoRequests : call_supports_video(r)
    \/ \E r \in SupportsAudioRequests : call_supports_audio(r)

SpecBuild == InitBuild /\ [][NextBuild]_vars

----------------------------------------------------------------------------
\* The pad-added callback of the deinterleaved audio pipeline

MaxChannels == 3
MaxPadEvents == 3

\* src_pad.name() of deinterleave's pad n and format!("src_{}", selected_channel - 1):
\* the prefix and the number printed after it.
pad_name(n) == <<"src_", n>>
selected_pad_name == <<"src_", selected_channel - 1>>

InitPads ==
    /\ StreamInit
    /\ BuildIdle
    /\ TeeIdle
    /\ LookupIdle
    /\ RunIdle
    /\ SchedIdle
    /\ FrameIdle
    /\ pads \in [selected_channel : 0..(MaxChannels + 1), pad_events : {<<>>},
                 queue_peer : {{}}, link_attempts : {<<>>}, callback : {"ok"}]

\* Mutant of pad_added: the queue's sink pad is not asked whether it is linked.
pad_added_relink(n, linkable) ==
    /\ callback = "ok"
    /\ Len(pad_events) < MaxPadEvents
    /\ pads' = IF pad_name(n) = selected_pad_name
               THEN [pads EXCEPT !.pad_events = Append(@, n),
                                 !.link_attempts = Append(@, n),
                                 !.queue_peer = IF linkable THEN {n} ELSE @,
                                 !.callback = IF linkable THEN @ ELSE "panicked"]
               ELSE [pads EXCEPT !.pad_events = Append(@, n)]
    /\ UNCHANGED <<stream_idle, build_vars, tee_vars, lookup, run, sched, frame>>

\* deinterleave emits pad-added for its pad src_n; `linkable` is whether
\* src_pad.link(&queue_sink_pad) succeeds.  A failed link panics in the callback,
\* which ends the process.
pad_added(n, linkable) ==
    /\ callback = "ok"
    /\ Len(pad_events) < MaxPadEvents
    /\ pads' = IF pad_name(n) = selected_pad_name
               THEN IF queue_peer # {}
                    THEN [pads EXCEPT !.pad_events = Append(@, n)]
                    ELSE [pads EXCEPT !.pad_events = Append(@, n),
                                      !.link_attempts = Append(@, n),
                                      !.queue_peer = IF linkable THEN {n} ELSE @,
                                      !.callback = IF linkable THEN @ ELSE "panicked"]
               ELSE [pads EXCEPT !.pad_events = Append(@, n)]
    /\ UNCHANGED <<stream_idle, build_vars, tee_vars, lookup, run, sched, frame>>

NextPads ==
    \E n \in 0..(MaxChannels - 1), linkable \in BOOLEAN : pad_added(n, linkable)

SpecPads == InitPads /\ [][NextPads]_vars

----------------------------------------------------------------------------
\* The two branches behind the tee of a JPEG pipeline built with a record path

MaxTeeFrames == 4

\* Buffers a queue element holds before a push into it blocks: neither queue is
\* given a property, so both are the engine's default, bounded and not leaky.
QueueMax == 2

InitTee ==
    /\ StreamInit
    /\ BuildIdle
    /\ PadsIdle
    /\ LookupIdle
    /\ RunIdle
    /\ SchedIdle
    /\ FrameIdle
    /\ tee \in [frames_in : {0}, tee_at : {"idle"}, queue_appsink : {0}, queue_file : {0},
                receivers : 0..1, recording : {"consuming"}, delivered : {0},
                recorded : {0}]

\* The streaming thread hands the next frame to the tee, which pushes it to its
\* first source pad, the one linked to the appsink queue.
tee_chain_appsink ==
    /\ tee_at = "idle"
    /\ frames_in < MaxTeeFrames
    /\ queue_appsink < QueueMax
    /\ tee' = [tee EXCEPT !.frames_in = @ + 1, !.queue_appsink = @ + 1, !.tee_at = "file"]
    /\ UNCHANGED <<stream_idle, build_vars, pad_vars, lookup, run, sched, frame>>

\* ... and then, on the same thread, to the pad linked to the file branch's queue.
tee_chain_file ==
    /\ tee_at = "file"
    /\ queue_file < QueueMax
    /\ tee' = [tee EXCEPT !.queue_file = @ + 1, !.tee_at = "idle"]
    /\ UNCHANGED <<stream_idle, build_vars, pad_vars, lookup, run, sched, frame>>

\* The appsink takes a buffer from its queue and runs the new_sample callback:
\* the frame is sent when the broadcast has a receiver and discarded otherwise.
appsink_new_sample ==
    /\ queue_appsink > 0
    /\ tee' = [tee EXCEPT !.queue_appsink = @ - 1,
                          !.delivered = IF receivers > 0 THEN @ + 1 ELSE @]
    /\ UNCHANGED <<stream_idle, build_vars, pad_vars, lookup, run, sched, frame>>

\* The file branch (videoconvert .. filesink) takes a buffer from its queue.
file_branch_consume ==
    /\ recording = "consuming"
    /\ queue_file > 0
    /\ tee' = [tee EXCEPT !.queue_file = @ - 1, !.recorded = @ + 1]
    /\ UNCHANGED <<stream_idle, build_vars, pad_vars, lookup, run, sched, frame>>

\* The file branch stops consuming.
file_branch_stall ==
    /\ recording = "consuming"
    /\ tee' = [tee EXCEPT !.recording = "stalled"]
    /\ UNCHANGED <<stream_idle, build_vars, pad_vars, lookup, run, sched, frame>>

\* Every subscriber drops its receivers.
receivers_drop ==
    /\ receivers > 0
    /\ tee' = [tee EXCEPT !.receivers = 0]
    /\ UNCHANGED <<stream_idle, build_vars, pad_vars, lookup, run, sched, frame>>

NextTee ==
    \/ tee_chain_appsink
    \/ tee_chain_file
    \/ appsink_new_sample
    \/ file_branch_consume
    \/ file_branch_stall
    \/ receivers_drop

SpecTee == InitTee /\ [][NextTee]_vars

----------------------------------------------------------------------------
\* Device look-up: get_gst_device, get_monitor, from_device_path,
\* from_screen_id_or_name, and the look-up start() makes first

\* Longest enumerations of devices and of displays.
MaxDevices == 2
MaxDisplays == 2

\* Strings whose characters matter are sequences of characters.  The properties
\* get_gst_device reads, and one it does not read.
Candidates == {"api.v4l2.path", "device.string", "device.path"}
PropertyKeys == Candidates \cup {"object.path"}
PropertyValues == {<<"v", "1">>, <<"v", "1", "0">>}
Paths == {<<>>, <<"v", "1">>, <<"v", "1", "0">>, <<"1", "0">>, <<"v", "2">>}

\* A device of the monitor: `props` holds its properties as <<key, value>> pairs
\* and is empty for a device without properties.
BackendDevices ==
    [props : {{}} \cup {{<<k, v>>} : k \in PropertyKeys, v \in PropertyValues},
     display_name : {"A", "B"},
     device_class : {"Video/Source", "Audio/Source"}]

\* DisplayInfo, as far as it is read.
DisplayInfos ==
    [id : {1, 10}, name : {<<"1", "0">>, <<"m">>}, friendly_name : {"L", "R"}]
ScreenNames == {<<"1">>, <<"1", "0">>, <<"m">>, <<"0">>}

RECURSIVE ListsOf(_, _)
ListsOf(S, n) ==
    IF n = 0 THEN {<<>>}
    ELSE LET shorter == ListsOf(S, n - 1)
         IN  shorter \cup {Append(l, x) : l \in {y \in shorter : Len(y) = n - 1}, x \in S}

Backends ==
    {[devices |-> ds, displays |-> <<>>] : ds \in ListsOf(BackendDevices, MaxDevices)}
        \cup {[devices |-> <<>>, displays |-> ms] : ms \in ListsOf(DisplayInfos, MaxDisplays)}

\* str::contains
contains(v, path) ==
    \E i \in 0..(Len(v) - Len(path)) : SubSeq(v, i + 1, i + Len(path)) = path

\* u32::to_string
RECURSIVE to_string(_)
to_string(n) ==
    LET digits == <<"0", "1", "2", "3", "4", "5", "6", "7", "8", "9">>
    IN  IF n < 10 THEN <<digits[n + 1]>>
        ELSE to_string(n \div 10) \o <<digits[(n % 10) + 1]>>

\* Iterator::find over a sequence: the first index that satisfies, or None.
first_of(hits) ==
    IF hits = {} THEN None ELSE CHOOSE i \in hits : \A j \in hits : i <= j

\* Mutant of get_gst_device: every property of the device is compared.
get_gst_device_any_property(devices, path) ==
    first_of({i \in DOMAIN devices :
                 \E p \in devices[i].props : contains(p[2], path)})

\* get_gst_device: the first device one of whose three candidate properties
\* contains the path.
get_gst_device(devices, path) ==
    first_of({i \in DOMAIN devices :
                 \E p \in devices[i].props : p[1] \in Candidates /\ contains(p[2], path)})

\* get_monitor: the first display whose id, printed, or whose name is the string.
get_monitor(displays, id_or_name) ==
    first_of({i \in DOMAIN displays :
                 \/ to_string(displays[i].id) = id_or_name
                 \/ displays[i].name = id_or_name})

\* impl From<DisplayInfo> for MediaDeviceInfo, as far as it is read
MediaDeviceInfo(display_info) ==
    [device_path |-> to_string(display_info.id),
     display_name |-> display_info.friendly_name,
     device_class |-> "Screen/Source"]

NoMediaDevice == [display_name |-> "", device_class |-> "", device_path |-> <<>>]
DeviceError(message) ==
    [result |-> "Err", error |-> <<"DeviceError", message>>, device |-> NoMediaDevice]
Found(d) == [result |-> "Ok", error |-> <<>>, device |-> d]

\* Mutant of from_device_path: device_path is the matched property of the device.
from_device_path_backend_path(devices, path) ==
    LET i == get_gst_device(devices, path)
    IN  IF i = None
        THEN DeviceError("No device found")
        ELSE Found([display_name |-> devices[i].display_name,
                    device_class |-> devices[i].device_class,
                    device_path |-> (CHOOSE p \in devices[i].props : TRUE)[2]])

from_device_path(devices, path) ==
    LET i == get_gst_device(devices, path)
    IN  IF i = None
        THEN DeviceError("No device found")
        ELSE Found([display_name |-> devices[i].display_name,
                    device_class |-> devices[i].device_class,
                    device_path |-> path])

from_screen_id_or_name(displays, screen_id_or_name) ==
    LET i == get_monitor(displays, screen_id_or_name)
    IN  IF i = None
        THEN DeviceError("No screen found")
        ELSE LET monitor == MediaDeviceInfo(displays[i])
             IN  Found([display_name |-> monitor.display_name,
                        device_class |-> "Screen/Source",
                        device_path |-> monitor.device_path])

\* start() on a stream without a Handle, up to the device: self.stop().await?
\* returns Ok, then `GstMediaDevice::from_device_path(device_id)?` for Video and
\* for Audio options alike.  With the device found start() goes on to the build.
start_device(devices, device_id) ==
    LET found == from_device_path(devices, device_id)
    IN  IF found.result = "Err"
        THEN found
        ELSE [found EXCEPT !.result = "build"]

InitLookup ==
    /\ StreamInit
    /\ BuildIdle
    /\ PadsIdle
    /\ TeeIdle
    /\ RunIdle
    /\ SchedIdle
    /\ FrameIdle
    /\ lookup \in [backend : Backends, call : {NoRequest}, answer : {[result |-> "none"]}]

call_from_device_path(path) ==
    /\ call = NoRequest
    /\ lookup' = [lookup EXCEPT
                     !.call = [fn |-> "from_device_path", id |-> path],
                     !.answer = from_device_path(backend.devices, path)]
    /\ UNCHANGED <<stream_idle, build_vars, pad_vars, tee_vars, run, sched, frame>>

call_from_screen_id_or_name(screen_id_or_name) ==
    /\ call = NoRequest
    /\ lookup' = [lookup EXCEPT
                     !.call = [fn |-> "from_screen_id_or_name", id |-> screen_id_or_name],
                     !.answer = from_screen_id_or_name(backend.displays, screen_id_or_name)]
    /\ UNCHANGED <<stream_idle, build_vars, pad_vars, tee_vars, run, sched, frame>>

call_start(device_id) ==
    /\ call = NoRequest
    /\ lookup' = [lookup EXCEPT
                     !.call = [fn |-> "start", id |-> device_id],
                     !.answer = start_device(backend.devices, device_id)]
    /\ UNCHANGED <<stream_idle, build_vars, pad_vars, tee_vars, run, sched, frame>>

\* One enumeration, asked one thing.
NextLookup ==
    \/ \E path \in Paths : call_from_device_path(path)
    \/ \E id \in ScreenNames : call_from_screen_id_or_name(id)
    \/ \E path \in Paths : call_start(path)

SpecLookup == InitLookup /\ [][NextLookup]_vars

----------------------------------------------------------------------------
\* run_pipeline, one call from its first line to its return

\* Longest run of bus messages looked at, and most close receivers.
MaxBus == 2
MaxReceivers == 2

\* Messages of the bus: Eos, Error, StateChanged to Playing, Paused or Null, and
\* any other.
BusMessages == {"Eos", "Error", "Playing", "Paused", "Null", "Other"}

\* What a call is given and meets: whether recording_metadata is Some, whether
\* set_state(Playing) and set_state(Null) succeed, the messages the bus hands
\* out, whether std::fs::write succeeds, and the close receivers alive when
\* tx.send is called.
RunInputs ==
    [fn : {"run_pipeline"}, recording_metadata : BOOLEAN, playing : BOOLEAN,
     bus : ListsOf(BusMessages, MaxBus), written : BOOLEAN, nulled : BOOLEAN,
     receivers : 0..MaxReceivers]

\* The message the `for msg in bus.iter_timed(NONE)` loop breaks on: the first
\* Eos, Error or StateChanged to Null.  None: the loop waits for the next message.
loop_end(bus) == first_of({i \in DOMAIN bus : bus[i] \in {"Eos", "Error", "Null"}})

\* RecordingMetadata::write_success / write_error: the name of the file they write.
write_success == ".json"
write_error == ".error.json"

\* What the call has done when it returns or waits: the states set on the
\* pipeline, the message the loop ended on, the records written (records) and
\* those the file system took (files), and the messages sent on the close channel.
Returned(result, error, states, ended_on, records, written, sent) ==
    [result |-> result, error |-> error, states |-> states, ended_on |-> ended_on,
     records |-> records, files |-> IF written THEN records ELSE <<>>, sent |-> sent]

\* Mutant of run_pipeline: the success record is written after the loop, whatever
\* message ended it.
run_pipeline_record_after_loop(g) ==
    IF ~g.playing
    THEN Returned("Err", "Failed to set pipeline to Playing state", <<>>, "none", <<>>,
                  g.written, 0)
    ELSE LET i == loop_end(g.bus)
         IN  IF i = None
             THEN Returned("waiting", "", <<"Playing">>, "none", <<>>, g.written, 0)
             ELSE LET records ==
                          IF ~g.recording_metadata THEN <<>>
                          ELSE IF g.bus[i] = "Error" THEN <<write_error, write_success>>
                          ELSE <<write_success>>
                  IN  IF ~g.nulled
                      THEN Returned("Err", "Failed to set pipeline to Null state",
                                    <<"Playing">>, g.bus[i], records, g.written, 0)
                      ELSE IF g.receivers = 0
                      THEN Returned("Err", "Failed to send signal", <<"Playing", "Null">>,
                                    g.bus[i], records, g.written, 0)
                      ELSE Returned("Ok", "", <<"Playing", "Null">>, g.bus[i], records,
                                    g.written, 1)

\* run_pipeline: set_state(Playing)?, the bus loop with the record its last
\* message calls for (`let _ =`: a failed write changes nothing else),
\* set_state(Null)?, tx.send(())? which fails without a receiver, Ok(()).
run_pipeline(g) ==
    IF ~g.playing
    THEN Returned("Err", "Failed to set pipeline to Playing state", <<>>, "none", <<>>,
                  g.written, 0)
    ELSE LET i == loop_end(g.bus)
         IN  IF i = None
             THEN Returned("waiting", "", <<"Playing">>, "none", <<>>, g.written, 0)
             ELSE LET records ==
                          IF ~g.recording_metadata THEN <<>>
                          ELSE IF g.bus[i] = "Eos" THEN <<write_success>>
                          ELSE IF g.bus[i] = "Error" THEN <<write_error>>
                          ELSE <<>>
                  IN  IF ~g.nulled
                      THEN Returned("Err", "Failed to set pipeline to Null state",
                                    <<"Playing">>, g.bus[i], records, g.written, 0)
                      ELSE IF g.receivers = 0
                      THEN Returned("Err", "Failed to send signal", <<"Playing", "Null">>,
                                    g.bus[i], records, g.written, 0)
                      ELSE Returned("Ok", "", <<"Playing", "Null">>, g.bus[i], records,
                                    g.written, 1)

call_run_pipeline(g) ==
    /\ given = NoRequest
    /\ run' = [given |-> g, ran |-> run_pipeline(g)]
    /\ UNCHANGED <<stream_idle, build_vars, pad_vars, tee_vars, lookup, sched, frame>>

\* One call of run_pipeline.
NextRun == \E g \in RunInputs : call_run_pipeline(g)

SpecRun == Init /\ [][NextRun]_vars

\* The elements of a sequence.
Range(s) == {s[i] : i \in DOMAIN s}

----------------------------------------------------------------------------
\* deinterleaved_audio_pipeline: the channel selected, from the request to the
\* frame broadcast

\* The calls of deinterleaved_audio_pipeline with their selected_channel.
DeinterleavedRequests ==
    [fn : {"deinterleaved_audio_pipeline"}, codec : AudioCodecs, channels : Channels,
     selected_channel : 0..MaxChannels, framerate : AudioRates, filename : BOOLEAN,
     factory : BOOLEAN]

InitSelect ==
    /\ StreamInit
    /\ build \in [device : {d \in Devices :
                                /\ d.device_class = "Audio/Source"
                                /\ \A i \in DOMAIN d.capabilities :
                                       d.capabilities[i].kind = "Audio"},
                  request : {NoRequest}, built : {NotBuilt}]
    /\ PadsIdle
    /\ tee \in [frames_in : {0}, tee_at : {"idle"}, queue_appsink : {0}, queue_file : {0},
                receivers : 0..1, recording : {"consuming"}, delivered : {0},
                recorded : {0}]
    /\ LookupIdle
    /\ RunIdle
    /\ SchedIdle
    /\ FrameIdle

\* deinterleaved_audio_pipeline(codec, channels, selected_channel, ..): the three
\* checks, then the builder, whose pad-added closure captures selected_channel.
call_deinterleaved_audio_pipeline(r) ==
    /\ request = NoRequest
    /\ LET p == audio_pipeline(device, r.fn, r.codec, r.channels, r.framerate, r.filename,
                               r.factory)
       IN  /\ build' = [build EXCEPT !.request = r, !.built = p]
           /\ pads' = IF p.result = "Ok"
                      THEN [pads EXCEPT !.selected_channel = r.selected_channel]
                      ELSE pads
    /\ UNCHANGED <<stream_idle, tee_vars, lookup, run, sched, frame>>

\* Mutant of deinterleave_chain: the buffer reaches the queue whether or not the
\* pad is linked to it.
deinterleave_chain_unlinked(n) ==
    /\ built.result = "Ok"
    /\ n \in Range(pad_events)
    /\ frames_in < MaxTeeFrames
    /\ tee' = [tee EXCEPT !.frames_in = @ + 1,
                          !.delivered = IF receivers > 0 THEN @ + 1 ELSE @]
    /\ UNCHANGED <<stream_idle, build_vars, pad_vars, lookup, run, sched, frame>>

\* deinterleave pushes a buffer out of its pad src_n.  Only the pad linked to the
\* queue's sink pad has a peer: its buffer goes queue -> tee -> queue-appsink ->
\* appsink, whose callback sends it when the broadcast has a receiver; a push on a
\* pad without a peer goes nowhere.
deinterleave_chain(n) ==
    /\ built.result = "Ok"
    /\ n \in Range(pad_events)
    /\ frames_in < MaxTeeFrames
    /\ tee' = IF queue_peer = {n}
              THEN [tee EXCEPT !.frames_in = @ + 1,
                               !.delivered = IF receivers > 0 THEN @ + 1 ELSE @]
              ELSE tee
    /\ UNCHANGED <<stream_idle, build_vars, pad_vars, lookup, run, sched, frame>>

\* One device asked for one deinterleaved pipeline, which then runs: deinterleave
\* adds a pad for each of the request's channels and pushes buffers out of them.
NextSelect ==
    \/ \E r \in DeinterleavedRequests : call_deinterleaved_audio_pipeline(r)
    \/ \E n \in 0..(MaxChannels - 1), linkable \in BOOLEAN :
          /\ built.result = "Ok"
          /\ n < request.channels
          /\ pad_added(n, linkable)
    \/ \E n \in 0..(MaxChannels - 1) : deinterleave_chain(n)

SpecSelect == InitSelect /\ [][NextSelect]_vars

----------------------------------------------------------------------------
\* The spawned tasks on the executor's worker threads

MaxWorkers == 2
MaxTasks == 3

\* The fields of `sched`: the number of worker threads, and for every spawned
\* task the function it runs and where it is: "queued" for a worker, "polling" on
\* a worker, "pending" at an await, or "done".
workers == sched.workers
tasks == sched.tasks

\* Tasks that hold a worker thread.
polling == {t \in DOMAIN tasks : tasks[t].at = "polling"}

InitSched ==
    /\ StreamInit
    /\ BuildIdle
    /\ PadsIdle
    /\ TeeIdle
    /\ LookupIdle
    /\ RunIdle
    /\ FrameIdle
    /\ sched \in [workers : 1..MaxWorkers, tasks : {<<>>}]

\* tokio::spawn(run_pipeline(..)) in start(), tokio::spawn(Self::video_track_task(..))
\* or audio_track_task(..) in publish_stream: the task waits for a worker.
spawn(fn) ==
    /\ Len(tasks) < MaxTasks
    /\ sched' = [sched EXCEPT !.tasks = Append(@, [fn |-> fn, at |-> "queued"])]
    /\ UNCHANGED <<stream_idle, build_vars, pad_vars, tee_vars, lookup, run, frame>>

\* A free worker takes a queued task and polls it.  run_pipeline begins with
\* set_state(Playing)?, which returns at once when it fails; a forwarding task
\* begins at its select!.
poll(t, playing) ==
    /\ tasks[t].at = "queued"
    /\ Cardinality(polling) < workers
    /\ sched' = [sched EXCEPT
                    !.tasks[t].at = IF tasks[t].fn = "run_pipeline" /\ ~playing
                                    THEN "done"
                                    ELSE "polling"]
    /\ UNCHANGED <<stream_idle, build_vars, pad_vars, tee_vars, lookup, run, frame>>

\* Mutant of run_pipeline_bus: the bus is read as an asynchronous stream, and the
\* task is pending at its await after a message that does not end the loop.
run_pipeline_bus_async(t, m) ==
    /\ tasks[t].fn = "run_pipeline"
    /\ tasks[t].at = "polling"
    /\ sched' = [sched EXCEPT
                    !.tasks[t].at = IF loop_end(<<m>>) # 0 THEN "done" ELSE "pending"]
    /\ UNCHANGED <<stream_idle, build_vars, pad_vars, tee_vars, lookup, run, frame>>

\* run_pipeline in `for msg in bus.iter_timed(ClockTime::NONE)`: the thread blocks
\* in the iterator until message m arrives; Eos, Error and StateChanged to Null
\* leave the loop and the function returns without an await, any other message
\* goes round.
run_pipeline_bus(t, m) ==
    /\ tasks[t].fn = "run_pipeline"
    /\ tasks[t].at = "polling"
    /\ sched' = [sched EXCEPT
                    !.tasks[t].at = IF loop_end(<<m>>) # 0 THEN "done" ELSE "polling"]
    /\ UNCHANGED <<stream_idle, build_vars, pad_vars, tee_vars, lookup, run, frame>>

\* A forwarding task at select!: with the close branch ready it breaks and
\* returns, with a frame ready it handles the frame and comes back to select!, and
\* with neither it is pending and gives up its worker.
track_task_select(t, ready) ==
    /\ tasks[t].fn = "track_task"
    /\ tasks[t].at = "polling"
    /\ sched' = [sched EXCEPT
                    !.tasks[t].at = IF ready = "close" THEN "done"
                                    ELSE IF ready = "frame" THEN "polling"
                                    ELSE "pending"]
    /\ UNCHANGED <<stream_idle, build_vars, pad_vars, tee_vars, lookup, run, frame>>

\* A send on one of its channels wakes a pending task: it waits for a worker again.
wake(t) ==
    /\ tasks[t].at = "pending"
    /\ sched' = [sched EXCEPT !.tasks[t].at = "queued"]
    /\ UNCHANGED <<stream_idle, build_vars, pad_vars, tee_vars, lookup, run, frame>>

NextSched ==
    \/ \E fn \in {"run_pipeline", "track_task"} : spawn(fn)
    \/ \E t \in DOMAIN tasks, playing \in BOOLEAN : poll(t, playing)
    \/ \E t \in DOMAIN tasks, m \in BusMessages : run_pipeline_bus(t, m)
    \/ \E t \in DOMAIN tasks, ready \in {"none", "frame", "close"} : track_task_select(t, ready)
    \/ \E t \in DOMAIN tasks : wake(t)

SpecSched == InitSched /\ [][NextSched]_vars

----------------------------------------------------------------------------
\* video_track_task: one frame from the broadcast channel to the bus source

MaxSide == 4
MaxPayload == 26

\* A frame as the task meets it: the resolution of the bus source, the mapped
\* payload (every byte named by its place in the buffer) and the buffer's pts,
\* <<>> for a buffer without one.
Frames ==
    [width : 1..MaxSide, height : 1..MaxSide,
     data : {[i \in 1..n |-> i] : n \in 0..MaxPayload},
     pts : {<<>>, <<0>>, <<40000>>}]

\* I420Buffer::new(width, height) and data_mut(): the lengths of the three planes
\* the bus's buffer hands out, a full-size luma plane and two chroma planes of
\* half the width and half the height, both rounded up.
I420Buffer(width, height) ==
    [data_y |-> width * height,
     data_u |-> ((width + 1) \div 2) * ((height + 1) \div 2),
     data_v |-> ((width + 1) \div 2) * ((height + 1) \div 2)]

\* &data[from..to]: the bytes after the first `from` up to the first `to`; Rust
\* panics when `to` is beyond the slice.
slice(data, from, to) ==
    IF to > Len(data)
    THEN [panic |-> TRUE, bytes |-> <<>>]
    ELSE [panic |-> FALSE, bytes |-> SubSeq(data, from + 1, to)]

\* dst.copy_from_slice(src): panics unless the two have the same length.
copy_from_slice(dst_len, src) == src.panic \/ Len(src.bytes) # dst_len

\* frame.pts().unwrap_or_default().useconds() as i64
timestamp_us(pts) == IF pts = <<>> THEN 0 ELSE pts[1]

\* The body of `if let Ok(frame) = frame { .. }` in video_track_task: what is
\* handed to rtc_source.capture_frame, or the panic of one of the three copies.
video_track_task(f) ==
    LET wrtc_video_buffer == I420Buffer(f.width, f.height)
        y_plane_size == f.width * f.height
        uv_plane_size == (f.width * f.height) \div 4
        y == slice(f.data, 0, y_plane_size)
        u == slice(f.data, y_plane_size, y_plane_size + uv_plane_size)
        v == slice(f.data, y_plane_size + uv_plane_size,
                   y_plane_size + 2 * uv_plane_size)
    IN  IF \/ copy_from_slice(wrtc_video_buffer.data_y, y)
           \/ copy_from_slice(wrtc_video_buffer.data_u, u)
           \/ copy_from_slice(wrtc_video_buffer.data_v, v)
        THEN [result |-> "panic"]
        ELSE [result |-> "capture_frame", data_y |-> y.bytes, data_u |-> u.bytes,
              data_v |-> v.bytes, rotation |-> 0, timestamp_us |-> timestamp_us(f.pts)]

InitFrame ==
    /\ StreamInit
    /\ BuildIdle
    /\ PadsIdle
    /\ TeeIdle
    /\ LookupIdle
    /\ RunIdle
    /\ SchedIdle
    /\ FrameIdle

\* frames_rx.recv() gives the task frame f; a task that panicked takes no more.
recv_frame(f) ==
    /\ frame.made.result # "panic"
    /\ frame' = [given |-> f, made |-> video_track_task(f)]
    /\ UNCHANGED <<stream_idle, build_vars, pad_vars, tee_vars, lookup, run, sched>>

NextFrame == \E f \in Frames : recv_frame(f)

SpecFrame == InitFrame /\ [][NextFrame]_vars

----------------------------------------------------------------------------
\* Claims

\* A pipeline instance is active from its build until it is set to Null or the
\* stream and its task have let go of it.
Active(r) == pipeline[r] \in {"built", "playing", "failed"} /\ ~released(r)

Unfinished(r) == task[r] \in {"spawned", "running"}

\* C1: in every state reachable by start(), stop() and subscribe() calls (failing
\* start() calls included), at most one pipeline instance of the stream is active
\* and at most one run_pipeline task of the stream is unfinished.
C1_AtMostOneActive ==
    /\ Cardinality({r \in Runs : Active(r)}) <= 1
    /\ Cardinality({r \in Runs : Unfinished(r)}) <= 1

\* C1 witness: after a restart the second pipeline is active and its task
\* unfinished while the first run is over and its pipeline released.
C1_Witness ==
    /\ runs = 2
    /\ handle = 2
    /\ Active(2)
    /\ Unfinished(2)
    /\ released(1)

\* C2: start() on a stream that holds a Handle has sent end-of-stream to the first
\* pipeline and the first task has completed before the device is resolved and the
\* second pipeline is built or run; when the second start() has returned Ok exactly
\* one Handle is held, the new one.
C2_StopBeforeRestart ==
    /\ \A r \in Runs : r < runs => eos[r] /\ TaskDone(r)
    /\ pc = "start_build" => \A r \in Runs : r <= runs => eos[r] /\ TaskDone(r)
    /\ (op = "start" /\ pc = "idle" /\ res = "Ok") => (handle # None /\ handle = runs)

\* C2 witness: the second start(), called on a held Handle, has returned Ok.
C2_Witness ==
    /\ op = "start"
    /\ pc = "idle"
    /\ res = "Ok"
    /\ "eos" \in eff
    /\ runs = 2
    /\ handle = 2

\* C3: stop() on a stream without a Handle returns Ok in one step, sends no
\* end-of-stream event, awaits nothing and leaves the stream without a Handle,
\* however often it is repeated.
C3_StopWithoutHandle ==
    [][(stop /\ handle = None) =>
          /\ pc' = "idle"
          /\ res' = "Ok"
          /\ eff' = {}
          /\ eos' = eos
          /\ handle' = None
          /\ UNCHANGED <<pipeline, task, taken>>]_vars

\* C3 witness: a stop() repeated on a stream that was started and stopped before.
C3_Witness ==
    /\ op = "stop"
    /\ pc = "idle"
    /\ res = "Ok"
    /\ eff = {}
    /\ runs = 1
    /\ eos[1]

\* C4: when stop() has returned on a stream that held a Handle it has returned Ok
\* and the Handle is cleared, whatever the task's result; a subscribe() that
\* follows returns None.
C4_StopClearsHandle ==
    [][/\ (op' = "stop" /\ pc' = "idle" /\ "await" \in eff') =>
              (res' = "Ok" /\ handle' = None /\ ~has_started')
       /\ (subscribe /\ op = "stop") => (res' = "None" /\ subs' = subs)]_vars

\* C4 witness: stop() has returned after awaiting a task that ended with an error,
\* an earlier run's task having panicked.
C4_Witness ==
    /\ op = "stop"
    /\ pc = "idle"
    /\ "await" \in eff
    /\ runs = 2
    /\ task[1] = "panic"
    /\ task[2] = "err"

\* C5 as claimed: between calls the stream holds a Handle exactly when its
\* background task is still pumping an active pipeline.
C5_HandleIffRunning ==
    (pc = "idle" /\ ~dropped) =>
        (has_started <=> \E r \in Runs : Unfinished(r) /\ Active(r))

\* C5 as amended: between calls a stream whose background task is unfinished holds
\* the Handle of that task; the Handle is cleared by stop(), start() and drop only,
\* so it stays after the pipeline has ended on its own.
C5_HandleOutlivesRun ==
    [][/\ (pc' = "idle" /\ ~dropped') =>
              \A r \in Runs : task'[r] \in {"spawned", "running"} => handle' = r
       /\ (has_started /\ ~has_started') => (stop \/ start \/ drop)]_vars

\* C5 witness: the pipeline has ended on its own (Null state set, close signal
\* sent) and the Handle is still held.
C5_Witness ==
    /\ pc = "idle"
    /\ ~dropped
    /\ has_started
    /\ task[handle] = "ok"
    /\ pipeline[handle] = "null"

\* C6: subscribe() returns None exactly when the stream holds no Handle; otherwise
\* it returns one new receiver pair, created from the senders of the current
\* Handle (the latest run) at their current positions, and touches no other.
C6_SubscribeCurrentHandle ==
    [][subscribe =>
          /\ (res' = "None") <=> (handle = None)
          /\ handle = None => subs' = subs
          /\ handle # None =>
                /\ res' = "Some"
                /\ Len(subs') = Len(subs) + 1
                /\ val' = Len(subs')
                /\ \A i \in DOMAIN subs : subs'[i] = subs[i]
                /\ subs'[val'].live
                /\ subs'[val'].run = handle
                /\ subs'[val'].run = runs
                /\ subs'[val'].fnext = frame_tx[handle]
                /\ subs'[val'].cnext = close_tx[handle]]_vars

\* C6 witness: a subscription to the second run, an earlier subscription to the
\* first run still existing.
C6_Witness ==
    /\ op = "subscribe"
    /\ pc = "idle"
    /\ res = "Some"
    /\ handle = 2
    /\ Len(subs) = 2
    /\ subs[1].live
    /\ subs[1].run = 1
    /\ subs[2].run = 2

\* C7: the new_sample callback is never blocked by a receiver and always reports
\* success; a frame it sends is the next one received by every subscriber that had
\* received all earlier frames, whatever the other subscribers did; a subscriber
\* that fell behind observes a lag and then receives the newest frame.
C7_SlowSubscriberOnlyLags ==
    [][\A r \in Runs :
          /\ (pipeline[r] = "playing" /\ ~released(r) /\ FramesSent < MaxFrames)
                => ENABLED new_sample(r)
          /\ new_sample(r) =>
                /\ sink'.ret = "Ok"
                /\ subs' = subs
                /\ receiver_count(r) > 0 => frame_tx'[r] = frame_tx[r] + 1
                /\ \A i \in DOMAIN subs :
                      (subs[i].live /\ subs[i].run = r /\ subs[i].fnext = frame_tx[r]) =>
                          LET got == recv(frame_tx'[r], subs'[i].fnext, FALSE)
                          IN  got.kind = "Ok" /\ got.val = frame_tx[r] + 1
          /\ \A i \in DOMAIN subs :
                (subs[i].live /\ subs[i].run = r) =>
                    LET got == recv(frame_tx[r], subs[i].fnext, FALSE)
                    IN  got.kind = "Lagged" =>
                            /\ got.val = frame_tx[r] - FrameCap - subs[i].fnext
                            /\ recv(frame_tx[r], got.next, FALSE).kind = "Ok"
                            /\ recv(frame_tx[r], got.next, FALSE).val = frame_tx[r]]_vars

\* C7 witness: of two subscribers of one run, one has received nothing and is two
\* frames behind, the other has received the second frame.
C7_Witness ==
    /\ Len(subs) = 2
    /\ subs[1].live /\ subs[2].live
    /\ subs[1].run = subs[2].run
    /\ frame_tx[subs[1].run] = 2
    /\ subs[1].fnext = 0
    /\ subs[2].fnext = 2
    /\ recv(frame_tx[subs[1].run], subs[1].fnext, FALSE).kind = "Lagged"
    /\ sink = [ret |-> "Ok", sent |-> TRUE]

\* C8: publish_stream on a stream that has not started enters start() before it
\* subscribes, so it never finds the stream without a Handle; when it has returned
\* a track identifier has_started() is true; when that start() fails it returns
\* the error without a bus call, a forwarding task or a mapping entry.
C8_PublishStartsStream ==
    [][/\ (publish_stream /\ ~has_started) =>
              (pc' = "start_build" /\ "start" \in eff' /\ UNCHANGED lk_vars)
       /\ pc' # "panicked"
       /\ (op' = "publish_stream" /\ pc' = "idle" /\ res' = "Ok") =>
              (has_started' /\ val' \in published_tracks')
       /\ \A o \in {"DeviceError", "PipelineError"} :
              (start_build(o) /\ op = "publish_stream") =>
                  /\ pc' = "idle"
                  /\ res' = "Err"
                  /\ "publish_track" \notin eff'
                  /\ ~has_started'
                  /\ UNCHANGED lk_vars]_vars

\* C8 witness: publish_stream has started the stream itself and returned a track
\* identifier.
C8_Witness ==
    /\ op = "publish_stream"
    /\ pc = "idle"
    /\ res = "Ok"
    /\ "start" \in eff
    /\ has_started
    /\ val \in published_tracks

\* C9 as claimed: when unpublish_track(id) has returned Ok for an id of the mapping,
\* the id is no longer a key and its forwarding task is cancelled; between calls the
\* keys are the tracks published and not unpublished since.
C9_UnpublishRemovesTrack ==
    /\ (op = "unpublish_track" /\ pc = "idle" /\ res = "Ok" /\ "unpublish_track" \in eff) =>
           (val \notin published_tracks /\ track_task[val] # "running")
    /\ pc = "idle" => published_tracks = room

\* C10: unpublish_track with an identifier that is no key of the mapping returns Ok
\* without a bus call and without an abort, and leaves the mapping, the bus and
\* every forwarding task as they were.
C10_UnpublishUnknownIsNoop ==
    [][(/\ op' = "unpublish_track"
        /\ val' \in 1..(MaxTracks + 1)
        /\ val' \notin published_tracks
        /\ \E a \in BOOLEAN : unpublish_track(val', a)) =>
          /\ pc' = "idle"
          /\ res' = "Ok"
          /\ eff' = {}
          /\ UNCHANGED lk_vars]_vars

\* C10 witness: an unknown identifier was unpublished while a published track's
\* forwarding task is running.
C10_Witness ==
    /\ op = "unpublish_track"
    /\ pc = "idle"
    /\ res = "Ok"
    /\ eff = {}
    /\ val \notin published_tracks
    /\ published_tracks = {1}
    /\ room = {1}
    /\ track_task[1] = "running"

\* C11: when the media bus rejects publish_track, publish_stream returns an error
\* and the track mapping is as it was: no TrackHandle is inserted for the call.
C11_RejectedPublishNotInserted ==
    [][pub_publish(FALSE) =>
          /\ pc' = "idle"
          /\ res' = "Err"
          /\ "publish_track" \in eff'
          /\ sids \notin published_tracks'
          /\ UNCHANGED <<published_tracks, room>>]_vars

\* C11 witness: publish_stream has returned the error of a rejected publish_track.
C11_Witness ==
    /\ op = "publish_stream"
    /\ pc = "idle"
    /\ res = "Err"
    /\ "publish_track" \in eff
    /\ sids \notin published_tracks

\* C12 as claimed: once publish_stream has returned the error of a rejected
\* publish_track, the forwarding task it spawned is not running and holds no
\* frame/close subscription.
C12_RejectedPublishLeavesNoTask ==
    (op = "publish_stream" /\ pc = "idle" /\ res = "Err" /\ "publish_track" \in eff) =>
        (track_task[sids] # "running" /\ ~track_rx[sids].live)

\* The checks of the builders, read off the device and the request.
WrongClass ==
    \/ request.fn = "video_pipeline" /\ device.device_class = "Audio/Source"
    \/ /\ request.fn \in {"audio_pipeline", "deinterleaved_audio_pipeline"}
       /\ device.device_class = "Video/Source"

NotAllowed ==
    \/ request.fn = "video_pipeline" /\ request.codec \notin {"video/x-h264", "image/jpeg"}
    \/ /\ request.fn \in {"audio_pipeline", "deinterleaved_audio_pipeline"}
       /\ request.codec # "audio/x-raw"

\* The capability sequence the backend gives for the device, when it gives one.
Listed ==
    IF device.device_class = "Screen/Source" THEN TRUE ELSE device.listed

Reported ==
    IF device.device_class = "Screen/Source" /\ ~device.monitor
    THEN <<>>
    ELSE device.capabilities

VideoEntry(c) ==
    /\ c.kind = "Video"
    /\ c.codec = request.codec
    /\ c.width = request.width
    /\ c.height = request.height
    /\ request.framerate \in c.framerates

AudioEntry(c) ==
    /\ c.kind = "Audio"
    /\ c.codec = request.codec
    /\ c.channels = request.channels
    /\ c.framerates[1] <= request.framerate
    /\ request.framerate <= c.framerates[2]

Unsupported ==
    IF request.fn = "video_pipeline"
    THEN \A i \in DOMAIN Reported : ~VideoEntry(Reported[i])
    ELSE \A i \in DOMAIN Reported : ~AudioEntry(Reported[i])

\* C13: video_pipeline, audio_pipeline and deinterleaved_audio_pipeline test the
\* device class, then the codec allow-list, then supports_video / supports_audio
\* for the requested parameters: the first failing check decides the error (the
\* class and allow-list errors come before the backend is asked anything), and a
\* failed check returns a PipelineError with no element and no pipeline created.
C13_ChecksBeforeBuild ==
    request.fn \in {"video_pipeline", "audio_pipeline", "deinterleaved_audio_pipeline"} =>
        /\ WrongClass =>
              /\ built.result = "PipelineError"
              /\ built.error \in {"Device is an audio source", "Device is a video source"}
              /\ built.elements = <<>>
              /\ built.scans = 0
        /\ (~WrongClass /\ NotAllowed) =>
              /\ built.result = "PipelineError"
              /\ built.error = "Unsupported codec"
              /\ built.elements = <<>>
              /\ built.scans = 0
        /\ (~WrongClass /\ ~NotAllowed /\ Listed /\ Unsupported) =>
              /\ built.result = "PipelineError"
              /\ built.error = "Device does not support requested configuration"
              /\ built.elements = <<>>
        /\ built.elements # <<>> => (~WrongClass /\ ~NotAllowed /\ ~Unsupported)

\* C13 witness: the class and the codec pass and the third check, supports_video,
\* rejects a request the device's one capability does not have.
C13_Witness ==
    /\ request.fn = "video_pipeline"
    /\ device.device_class = "Video/Source"
    /\ device.listed
    /\ Len(device.capabilities) = 1
    /\ device.capabilities[1].kind = "Video"
    /\ request.codec = "image/jpeg"
    /\ device.capabilities[1].codec = "image/jpeg"
    /\ request.width # device.capabilities[1].width
    /\ built.result = "PipelineError"
    /\ built.error = "Device does not support requested configuration"
    /\ built.elements = <<>>

\* C14 as claimed: a raw-format (video/x-raw) request without a record path, on a
\* listed video device whose capabilities hold exactly the requested codec, width,
\* height and framerate, is accepted and built as source -> filter -> sink.
C14_RawVideoBuilt ==
    (/\ request.fn = "video_pipeline"
     /\ request.codec = "video/x-raw"
     /\ ~request.filename
     /\ request.factory
     /\ device.device_class = "Video/Source"
     /\ device.listed
     /\ \E i \in DOMAIN device.capabilities : VideoEntry(device.capabilities[i])) =>
        /\ built.result = "Ok"
        /\ built.elements = <<"source", "capsfilter", "appsink">>

\* C15: an H.264 (video/x-h264) video request with a record path never returns a
\* pipeline and creates no element: it returns a PipelineError (or panics in the
\* capability look-up of a device the backend does not list); without a record
\* path, what it builds is the chain source -> caps filter -> parser -> decoder ->
\* sink, with no tee and no file sink, and it builds it whenever the checks pass
\* and the engine has the elements.
C15_H264NoRecording ==
    (request.fn = "video_pipeline" /\ request.codec = "video/x-h264") =>
        /\ request.filename =>
              /\ built.result \in {"PipelineError", "panic"}
              /\ built.result = "panic" => ~device.listed
              /\ built.elements = <<>>
        /\ (~request.filename /\ built.result = "Ok") =>
              built.elements = <<"source", "capsfilter", "h264parse", "avdec_h264", "appsink">>
        /\ (/\ ~request.filename
            /\ request.factory
            /\ device.listed
            /\ ~WrongClass
            /\ ~Unsupported) => built.result = "Ok"

\* C15 witness: a supported H.264 request with a record path was rejected by the
\* H.264 builder itself.
C15_Witness ==
    /\ request.fn = "video_pipeline"
    /\ request.codec = "video/x-h264"
    /\ request.filename
    /\ ~WrongClass
    /\ Listed
    /\ ~Unsupported
    /\ built.result = "PipelineError"
    /\ built.error = "Filename not supported for H264 pipeline"

\* C18: for a video device the backend lists, supports_video(codec, width, height,
\* framerate) is true exactly when the capability sequence has a Video entry with
\* that codec, width and height whose framerate set contains the framerate; against
\* a sequence of one Video entry, a request that differs from the entry in any of
\* the four fields is answered false.
C18_SupportsVideoExact ==
    (/\ request.fn = "supports_video"
     /\ device.device_class = "Video/Source"
     /\ device.listed) =>
        /\ built.result \in {"true", "false"}
        /\ built.result = "true" <=>
              \E i \in DOMAIN device.capabilities :
                  LET c == device.capabilities[i]
                  IN  /\ c.kind = "Video"
                      /\ c.codec = request.codec
                      /\ c.width = request.width
                      /\ c.height = request.height
                      /\ request.framerate \in c.framerates
        /\ (/\ Len(device.capabilities) = 1
            /\ device.capabilities[1].kind = "Video"
            /\ \/ device.capabilities[1].codec # request.codec
               \/ device.capabilities[1].width # request.width
               \/ device.capabilities[1].height # request.height
               \/ request.framerate \notin device.capabilities[1].framerates) =>
              built.result = "false"

\* C18 witness: the one entry has the requested codec, width and height but not
\* the requested framerate, and the answer is false.
C18_Witness ==
    /\ request.fn = "supports_video"
    /\ device.device_class = "Video/Source"
    /\ device.listed
    /\ Len(device.capabilities) = 1
    /\ device.capabilities[1].kind = "Video"
    /\ device.capabilities[1].codec = request.codec
    /\ device.capabilities[1].width = request.width
    /\ device.capabilities[1].height = request.height
    /\ request.framerate \notin device.capabilities[1].framerates
    /\ built.result = "false"

\* C19: for an audio device the backend lists, supports_audio(codec, channels,
\* framerate) is true exactly when some Audio capability has that codec and channel
\* count and min <= framerate <= max: min and max themselves are accepted, min - 1
\* and max + 1 are not.
C19_SupportsAudioInclusive ==
    (/\ request.fn = "supports_audio"
     /\ device.device_class = "Audio/Source"
     /\ device.listed) =>
        /\ built.result \in {"true", "false"}
        /\ built.result = "true" <=>
              \E i \in DOMAIN device.capabilities :
                  LET c == device.capabilities[i]
                  IN  /\ c.kind = "Audio"
                      /\ c.codec = request.codec
                      /\ c.channels = request.channels
                      /\ c.framerates[1] <= request.framerate
                      /\ request.framerate <= c.framerates[2]
        /\ \A i \in DOMAIN device.capabilities :
              LET c == device.capabilities[i]
              IN  (/\ c.kind = "Audio"
                   /\ c.codec = request.codec
                   /\ c.channels = request.channels
                   /\ request.framerate \in {c.framerates[1], c.framerates[2]}) =>
                      built.result = "true"
        /\ (/\ Len(device.capabilities) = 1
            /\ device.capabilities[1].kind = "Audio"
            /\ request.framerate \in {device.capabilities[1].framerates[1] - 1,
                                      device.capabilities[1].framerates[2] + 1}) =>
              built.result = "false"

\* C19 witness: the requested framerate is the upper bound of a proper range and
\* is accepted.
C19_Witness ==
    /\ request.fn = "supports_audio"
    /\ device.device_class = "Audio/Source"
    /\ device.listed
    /\ Len(device.capabilities) = 1
    /\ device.capabilities[1].kind = "Audio"
    /\ device.capabilities[1].framerates[1] < device.capabilities[1].framerates[2]
    /\ request.framerate = device.capabilities[1].framerates[2]
    /\ built.result = "true"

\* C20 as claimed: supports_audio on a "Video/Source" device and supports_video on
\* an "Audio/Source" device return false whatever the capabilities and whatever the
\* backend lists, without a backend look-up.
C20_WrongClassNoScan ==
    (\/ request.fn = "supports_audio" /\ device.device_class = "Video/Source"
     \/ request.fn = "supports_video" /\ device.device_class = "Audio/Source") =>
        /\ built.result = "false"
        /\ built.scans = 0

\* C16: with selected_channel = k, whatever pad-added events arrive, only the pad
\* named src_(k-1) is ever linked to the downstream queue or offered to it, every
\* other pad leaves the queue as it was, link is called at most once, and a
\* pad-added event that finds the queue's sink pad linked calls no link.
C16_SelectedPadLinkedOnce ==
    [][/\ queue_peer' \subseteq {selected_channel - 1}
       /\ \A i \in DOMAIN link_attempts' : link_attempts'[i] = selected_channel - 1
       /\ Len(link_attempts') <= 1
       /\ \A n \in 0..(MaxChannels - 1), linkable \in BOOLEAN :
             /\ (pad_added(n, linkable) /\ n # selected_channel - 1) =>
                    UNCHANGED <<queue_peer, link_attempts, callback>>
             /\ (pad_added(n, linkable) /\ queue_peer # {}) =>
                    UNCHANGED <<queue_peer, link_attempts, callback>>]_vars

\* C16 witness: the selected pad was added twice, is linked to the queue, and
\* link was called once.
C16_Witness ==
    /\ selected_channel = 3
    /\ queue_peer = {2}
    /\ Len(link_attempts) = 1
    /\ Len(pad_events) >= 2
    /\ pad_events[1] = 2
    /\ pad_events[2] = 2

\* C17 as claimed: behind the tee the two branches progress independently.  While
\* frames remain, with every subscriber dropped the file branch still gets its
\* next frame, and with the file branch stalled the appsink branch still gets its
\* next frame to deliver.
C17_BranchesIndependent ==
    /\ (frames_in < MaxTeeFrames /\ receivers = 0 /\ recording = "consuming") =>
           ENABLED (tee_chain_appsink \/ tee_chain_file \/ appsink_new_sample
                        \/ file_branch_consume)
    /\ (frames_in < MaxTeeFrames /\ recording = "stalled") =>
           ENABLED (tee_chain_appsink \/ tee_chain_file \/ appsink_new_sample)

\* s occurs in v: v is some characters, then s, then the rest.
Within(s, v) ==
    \E a \in 0..Len(v), b \in 0..Len(v) : a <= b /\ SubSeq(v, a + 1, b) = s

\* Device i of the enumeration has an identifying property that holds the id asked.
Identified(i) ==
    \E p \in backend.devices[i].props :
        /\ p[1] \in {"api.v4l2.path", "device.string", "device.path"}
        /\ Within(call.id, p[2])

\* Display i has the id asked as its identifier or as its name.
Shown(i) ==
    \/ to_string(backend.displays[i].id) = call.id
    \/ backend.displays[i].name = call.id

C22_PathIsCallers ==
    (call.fn = "from_device_path" /\ answer.result = "Ok") =>
        /\ answer.device.device_path = call.id
        /\ \E i \in DOMAIN backend.devices :
              /\ Identified(i)
              /\ \A j \in 1..(i - 1) : ~Identified(j)
              /\ answer.device.display_name = backend.devices[i].display_name
              /\ answer.device.device_class = backend.devices[i].device_class

\* C22 witness: two devices match, the first through a property value longer
\* than the path asked, and they differ in name and class.
C22_Witness ==
    /\ call.fn = "from_device_path"
    /\ answer.result = "Ok"
    /\ Len(backend.devices) = 2
    /\ Identified(1) /\ Identified(2)
    /\ call.id \notin {p[2] : p \in backend.devices[1].props}
    /\ backend.devices[1].display_name # backend.devices[2].display_name
    /\ backend.devices[1].device_class # backend.devices[2].device_class
    /\ answer.device.display_name = backend.devices[1].display_name

\* C23 as claimed, on an engine that takes the Null state and a file system that
\* takes the write: when the bus loop has ended on an Error message the run is
\* terminal: the pipeline has been set to Null, an error record is persisted when
\* recording metadata is present, and the task's result is an error.
C23_ErrorIsTaskResult ==
    (/\ given.fn = "run_pipeline"
     /\ ran.ended_on = "Error"
     /\ given.nulled
     /\ given.written) =>
        /\ ran.states = <<"Playing", "Null">>
        /\ given.recording_metadata => ran.files = <<".error.json">>
        /\ ran.result = "Err"

\* C24: a run with recording metadata writes at most one record and never both
\* kinds: the success record <filename>.json exactly when the loop ends on Eos,
\* the error record <filename>.error.json exactly when it ends on Error, none
\* when it ends on a state change to Null (or does not end); a run without
\* recording metadata writes no record; nothing else reaches the file system.
C24_OneRecordPerRun ==
    given.fn = "run_pipeline" =>
        /\ Len(ran.records) <= 1
        /\ ".json" \in Range(ran.records) <=>
               (given.recording_metadata /\ ran.ended_on = "Eos")
        /\ ".error.json" \in Range(ran.records) <=>
               (given.recording_metadata /\ ran.ended_on = "Error")
        /\ ran.ended_on \in {"Null", "none"} => ran.records = <<>>
        /\ ~given.recording_metadata => ran.records = <<>>
        /\ Range(ran.files) \subseteq Range(ran.records)
        /\ given.written => ran.files = ran.records

\* C24 witness: a recording run went through a state change, ended on Error and
\* wrote the error record and no other.
C24_Witness ==
    /\ given.fn = "run_pipeline"
    /\ given.recording_metadata
    /\ given.bus = <<"Playing", "Error">>
    /\ ran.ended_on = "Error"
    /\ ran.records = <<".error.json">>
    /\ ran.files = <<".error.json">>

\* C25 as claimed: whenever the task has ended, after Eos, Error, a state change
\* to Null or a failed state transition, it has set the pipeline to Null and then
\* sent exactly one message on the close channel, which every close receiver
\* subscribed before observes as its next message.
C25_NullThenCloseSignal ==
    (given.fn = "run_pipeline" /\ ran.result \in {"Ok", "Err"}) =>
        /\ ran.states # <<>>
        /\ ran.states[Len(ran.states)] = "Null"
        /\ ran.sent = 1
        /\ \A rx \in 1..given.receivers : recv(ran.sent, 0, FALSE).kind = "Ok"

\* The close signal of its run is waiting for forwarding task t.
CloseWaiting(t) ==
    /\ track_task[t] = "running"
    /\ close_tx[track_rx[t].run] > track_rx[t].cnext

C28_SendIffReceiver ==
    [][\A r \in Runs :
          new_sample(r) =>
              /\ sink'.ret = "Ok"
              /\ sink'.sent <=> receiver_count(r) > 0
              /\ receiver_count(r) > 0 => frame_tx' = [frame_tx EXCEPT ![r] = @ + 1]
              /\ receiver_count(r) = 0 => frame_tx' = frame_tx
              /\ UNCHANGED <<close_tx, subs, pipeline, task>>]_vars

\* C28 witness: a unit was delivered after the only subscriber had dropped its
\* receivers: nothing was sent and the callback reported success.
C28_Witness ==
    /\ sink = [ret |-> "Ok", sent |-> FALSE]
    /\ runs = 1
    /\ pipeline[1] = "playing"
    /\ Len(subs) = 1
    /\ ~subs[1].live
    /\ frame_tx[1] = 0

\* Positions of a factory among the elements of a graph.
At(elements, factory) == {i \in DOMAIN elements : elements[i] = factory}

\* C29: every accepted JPEG video, screen, plain audio and channel-selected audio
\* request yields a graph with exactly one tee and exactly one appsink, the appsink
\* behind a queue on the tee's first branch; a file sink is in the graph exactly
\* when a record path was given, it is the only one and it ends a second branch
\* that follows the subscriber branch; no graph has a file sink without the
\* subscriber branch.
C29_OneTeeOneSubscriberBranch ==
    (/\ built.result = "Ok"
     /\ \/ request.fn = "video_pipeline" /\ request.codec = "image/jpeg"
        \/ request.fn \in {"screen_share_pipeline", "audio_pipeline",
                           "deinterleaved_audio_pipeline"}) =>
        LET g == built.elements
        IN  /\ Cardinality(At(g, "tee")) = 1
            /\ Cardinality(At(g, "appsink")) = 1
            /\ \A t \in At(g, "tee") :
                  /\ t + 2 <= Len(g)
                  /\ g[t + 1] = "queue"
                  /\ g[t + 2] = "appsink"
                  /\ request.filename =>
                        /\ t + 3 < Len(g)
                        /\ g[t + 3] = "queue"
                        /\ At(g, "filesink") = {Len(g)}
                  /\ ~request.filename => Len(g) = t + 2
            /\ At(g, "filesink") # {} <=> request.filename
            /\ At(g, "filesink") # {} => At(g, "appsink") # {}

\* C29 witness: a screen request with a record path was accepted and its graph
\* has both branches behind the tee.
C29_Witness ==
    /\ request.fn = "screen_share_pipeline"
    /\ request.filename
    /\ built.result = "Ok"
    /\ At(built.elements, "tee") # {}
    /\ At(built.elements, "appsink") # {}
    /\ At(built.elements, "filesink") # {}

\* C30: dropping a GstMediaStream that holds a Handle sets that Handle's pipeline
\* to Null within the drop and does nothing else: no end-of-stream event is sent,
\* no task is awaited or changed, no channel and no record is written; dropping a
\* stream without a Handle changes no pipeline.
C30_DropOnlyNulls ==
    [][drop =>
          /\ handle # None => pipeline' = [pipeline EXCEPT ![handle] = "null"]
          /\ handle = None => pipeline' = pipeline
          /\ handle' = None
          /\ pc' = "idle"
          /\ eff' = {}
          /\ UNCHANGED <<eos, task, taken, runs, subs, run>>
          /\ UNCHANGED <<chan_vars, lk_vars>>]_vars

\* C30 witness: the stream was dropped while its task was pumping the pipeline:
\* the pipeline is Null, no end-of-stream was sent and the task is still running.
C30_Witness ==
    /\ op = "drop"
    /\ dropped
    /\ runs = 1
    /\ pipeline[1] = "null"
    /\ task[1] = "running"
    /\ ~eos[1]
    /\ handle = None

\* C31: every unpublish_track call for an identifier in the track mapping ends with
\* that identifier's forwarding task not running, whether the media bus accepted
\* the unpublish or reported an error, and the call does not wait for the task.
C31_UnpublishAlwaysCancels ==
    [][\A t \in Tracks, accepted \in BOOLEAN :
          (unpublish_track(t, accepted) /\ t \in published_tracks) =>
              /\ track_task'[t] # "running"
              /\ pc' = "idle"]_vars

\* C32: a start() whose device lookup, output directory or pipeline build fails
\* returns the error with no Handle installed, no pipeline kept and no task
\* spawned; the implicit stop() has by then released the Handle of a stream that
\* was running and awaited its task, so has_started() is false afterwards and
\* every earlier run's task has ended.
C32_FailedStartLeavesNothing ==
    [][\A outcome \in {"DeviceError", "PipelineError"} :
          start_build(outcome) =>
              /\ handle = None
              /\ \A r \in 1..runs : TaskDone(r)
              /\ res' = "Err"
              /\ pc' = "idle"
              /\ ~has_started'
              /\ UNCHANGED <<runs, pipeline, task, taken>>
              /\ UNCHANGED <<chan_vars, lk_vars>>]_vars

\* C32 witness: start() on a running stream failed after its implicit stop() had
\* sent end-of-stream and awaited the task: the call returned the error, the one
\* run there ever was has ended and the stream holds no Handle.
C32_Witness ==
    /\ op = "start"
    /\ pc = "idle"
    /\ res = "Err"
    /\ {"eos", "await"} \subseteq eff
    /\ runs = 1
    /\ TaskDone(1)
    /\ ~has_started

\* Run r's task has ended and its pipeline is not streaming: it was set to Null
\* after the bus loop, or never reached Playing.
Stopped(r) == TaskDone(r) /\ pipeline[r] # "playing"

\* A receiver pair of a stopped run that has nothing to take from either channel.
Late(x) ==
    /\ x.live
    /\ Stopped(x.run)
    /\ x.fnext = frame_tx[x.run]
    /\ x.cnext = close_tx[x.run]

\* C33: once a run's task has ended on its own and its pipeline is stopped, no
\* frame and no close message is sent on its channels any more.  A receiver pair
\* that subscribe() hands out then, or that publish_stream moves into a forwarding
\* task then, starts with nothing to take and stays so: both of its receives are
\* pending while the Handle's senders are held and report the closed channel once
\* they are released, which only stop() (its await, also inside start()) and drop
\* do; a forwarding task in that position takes no frame and leaves its loop
\* exactly when the senders are released.
C33_LateReceiverWaitsForRelease ==
    [][/\ \A r \in Runs :
             Stopped(r) =>
                 /\ frame_tx'[r] = frame_tx[r]
                 /\ close_tx'[r] = close_tx[r]
                 /\ Stopped(r)'
                 /\ (~released(r) /\ released(r)') => (drop \/ stop_await)
       /\ (subscribe /\ handle # None /\ Stopped(handle)) => Late(subs'[Len(subs')])
       /\ (publish_stream /\ handle # None /\ Stopped(handle)) => Late(track_rx'[sids'])
       /\ \A x \in Range(subs) \cup Range(track_rx) :
             Late(x) =>
                 LET expected == IF released(x.run) THEN "Closed" ELSE "Pending"
                 IN  /\ recv(frame_tx[x.run], x.fnext, released(x.run)).kind = expected
                     /\ recv(close_tx[x.run], x.cnext, released(x.run)).kind = expected
       /\ \A i \in DOMAIN subs : Late(subs[i]) => ~sub_recv(i)
       /\ \A t \in Tracks :
             (Late(track_rx[t]) /\ track_task[t] = "running") =>
                 /\ ~track_task_frame(t)
                 /\ released(track_rx[t].run) <=> ENABLED track_task_close(t)]_vars

\* C33 witness: the task of the only run ended after sending its close message to
\* an earlier subscriber; a second subscribe() returned a pair that has neither a
\* frame nor the close message to take, and the stream still holds the Handle.
C33_Witness ==
    /\ op = "subscribe"
    /\ res = "Some"
    /\ runs = 1
    /\ task[1] = "ok"
    /\ handle = 1
    /\ close_tx[1] = 1
    /\ Len(subs) = 2
    /\ Late(subs[2])
    /\ subs[2].cnext = 1

C35_PublishTwiceTwoTracks ==
    [][/\ (publish_stream /\ has_started) =>
             /\ pc' = "pub_publish"
             /\ sids' = sids + 1
             /\ track_task' = [track_task EXCEPT ![sids + 1] = "running"]
             /\ track_rx' = [track_rx EXCEPT ![sids + 1] = new_receivers(handle)]
       /\ pub_publish(TRUE) =>
             /\ sids \notin published_tracks
             /\ published_tracks' = published_tracks \cup {sids}
             /\ UNCHANGED <<track_task, track_rx>>
       /\ \A t \in Tracks, accepted \in BOOLEAN :
             unpublish_track(t, accepted) =>
                 \A u \in Tracks \ {t} :
                     /\ track_task'[u] = track_task[u]
                     /\ track_rx'[u] = track_rx[u]]_vars

\* C35 witness: the stream was published twice during its only run and the first
\* track was then unpublished: the mapping has two entries, the first task is
\* aborted and the second is running on receivers of the same run.
C35_Witness ==
    /\ op = "unpublish_track"
    /\ val = 1
    /\ res = "Ok"
    /\ runs = 1
    /\ handle = 1
    /\ {1, 2} \subseteq published_tracks
    /\ track_task[1] = "aborted"
    /\ track_task[2] = "running"
    /\ track_rx[2].live
    /\ track_rx[2].run = 1

\* selected_channel names none of the channels of the request.
OutOfRange ==
    request.selected_channel < 1 \/ request.selected_channel > request.channels

\* C36: deinterleaved_audio_pipeline makes no check of selected_channel: a request
\* whose selected_channel is below 1 or above channels is built whenever the same
\* request with a channel in range would be; in such a pipeline no pad that
\* deinterleave adds has the name src_(selected_channel-1), the callback never
\* calls link, the queue stays without a peer, no buffer reaches the tee and no
\* frame is sent to the frame broadcast.
C36_UncheckedChannelIsSilent ==
    (request.fn = "deinterleaved_audio_pipeline" /\ OutOfRange) =>
        /\ (/\ ~WrongClass
            /\ ~NotAllowed
            /\ Listed
            /\ device.listed
            /\ ~Unsupported
            /\ request.factory) => built.result = "Ok"
        /\ built.result = "Ok" => selected_channel = request.selected_channel
        /\ \A i \in DOMAIN pad_events : pad_name(pad_events[i]) # selected_pad_name
        /\ link_attempts = <<>>
        /\ queue_peer = {}
        /\ callback = "ok"
        /\ frames_in = 0
        /\ delivered = 0

\* C36 witness: a two-channel request selecting channel 3 was built; deinterleave
\* has added both of its pads, a subscriber is there, and the queue has no peer.
C36_Witness ==
    /\ request.fn = "deinterleaved_audio_pipeline"
    /\ request.channels = 2
    /\ request.selected_channel = 3
    /\ built.result = "Ok"
    /\ receivers = 1
    /\ {0, 1} \subseteq Range(pad_events)
    /\ queue_peer = {}
    /\ delivered = 0

\* run_pipeline tasks that hold a worker thread in the bus loop.
Pumping == {t \in polling : tasks[t].fn = "run_pipeline"}

\* C37: a run_pipeline task that a worker has taken and that has set its pipeline
\* to Playing keeps that worker until the bus loop ends: its next position is on
\* the worker still or done, and it is done only by an Eos, an Error or a state
\* change to Null.  While every worker is held by such a task no forwarding task
\* is on a worker, no queued task is taken by one, and a task woken at its await
\* only joins the queue.
C37_PipelineTaskHoldsWorker ==
    [][/\ \A t \in Pumping :
             /\ tasks'[t].at \in {"polling", "done"}
             /\ tasks'[t].at = "done" =>
                    \E m \in {"Eos", "Error", "Null"} : run_pipeline_bus(t, m)
       /\ Cardinality(Pumping) = workers =>
             /\ \A t \in DOMAIN tasks, playing \in BOOLEAN : ~ENABLED poll(t, playing)
             /\ \A t \in DOMAIN tasks :
                   /\ tasks[t].fn = "track_task" => tasks[t].at # "polling"
                   /\ tasks[t].at = "queued" => tasks'[t].at = "queued"
                   /\ tasks[t].at = "pending" => tasks'[t].at \in {"pending", "queued"}]_vars

\* C37 witness: two workers, each held by a stream's run_pipeline task, and a
\* forwarding task that ran before, was woken at its await and waits for a worker.
C37_Witness ==
    /\ workers = 2
    /\ Len(tasks) = 3
    /\ tasks[1] = [fn |-> "run_pipeline", at |-> "polling"]
    /\ tasks[2] = [fn |-> "track_task", at |-> "queued"]
    /\ tasks[3] = [fn |-> "run_pipeline", at |-> "polling"]

\* The two refusals screen_share_pipeline makes before it looks for the screen.
Refused ==
    /\ built.result = "PipelineError"
    /\ built.error \in {"Device is not a screen source",
                        "Device does not support requested configuration"}

\* C38: screen_share_pipeline goes past its two checks exactly when the device
\* class is "Screen/Source" and one of the device's Screen capabilities has the
\* requested codec, a width and a height not below the requested ones and the
\* requested framerate among its framerates; the codec need not be one of
\* SUPPORTED_VIDEO_CODECS and the size need not be equal.
C38_ScreenShareAccepts ==
    request.fn = "screen_share_pipeline" =>
        (~Refused <=>
            /\ device.device_class = "Screen/Source"
            /\ \E i \in DOMAIN capabilities(device).caps :
                  LET c == capabilities(device).caps[i]
                  IN  /\ c.kind = "Screen"
                      /\ c.codec = request.codec
                      /\ c.width >= request.width
                      /\ c.height >= request.height
                      /\ request.framerate \in c.framerates)

\* C38 witness: a pipeline built for a codec outside SUPPORTED_VIDEO_CODECS and a
\* size smaller than the screen's.
C38_Witness ==
    /\ request.fn = "screen_share_pipeline"
    /\ built.result = "Ok"
    /\ request.codec \notin SUPPORTED_VIDEO_CODECS
    /\ Head(device.capabilities).width > request.width
    /\ Head(device.capabilities).height > request.height

\* Bytes the three copies of video_track_task read from the payload of a frame.
Needed(f) == f.width * f.height + 2 * ((f.width * f.height) \div 4)

\* C39: a frame whose payload has at least w*h + 2*floor(w*h/4) bytes is
\* submitted with the first w*h bytes as the luma plane, the next floor(w*h/4) as
\* the first chroma plane and the floor(w*h/4) after those as the second, with the
\* buffer's timestamp and rotation zero; a frame with a shorter payload makes the
\* task panic.
C39_PlanesCopiedOrPanic ==
    frame.given # NoRequest =>
        LET f == frame.given
            y == f.width * f.height
            uv == (f.width * f.height) \div 4
        IN  IF Len(f.data) >= Needed(f)
            THEN /\ frame.made.result = "capture_frame"
                 /\ frame.made.data_y = [i \in 1..y |-> i]
                 /\ frame.made.data_u = [i \in 1..uv |-> y + i]
                 /\ frame.made.data_v = [i \in 1..uv |-> y + uv + i]
                 /\ frame.made.rotation = 0
                 /\ frame.made.timestamp_us = timestamp_us(f.pts)
            ELSE frame.made.result = "panic"

\* publish_stream reaching its three unwraps: straight from the call on a started
\* stream, or from the end of the start() it made.
Unwrapping ==
    /\ op' = "publish_stream"
    /\ pc \in {"idle", "start_build"}
    /\ pc' \in {"pub_publish", "panicked"}

\* C40: whenever publish_stream comes to stream.subscribe().unwrap(),
\* stream.details().unwrap() and stream.get_device_name().unwrap(), after start(),
\* stop() and publish_stream calls in any order, the stream has a Handle, which is
\* all the three accessors map over: none of the unwraps panics, and the
\* receivers the forwarding task gets are those of that Handle's run.
C40_UnwrapsFindHandle ==
    [][Unwrapping =>
          /\ handle' # None
          /\ pc' = "pub_publish"
          /\ res' # "panic"
          /\ sids' = sids + 1
          /\ track_rx'[sids'].run = handle']_vars

\* C40 witness: a second publish_stream, made after a stop(), has started the
\* stream again itself and has subscribed to the new run.
C40_Witness ==
    /\ op = "publish_stream"
    /\ pc = "pub_publish"
    /\ "start" \in eff
    /\ runs = 2
    /\ handle = 2
    /\ sids = 2
    /\ track_rx[2].run = 2
    /\ 1 \in published_tracks

====
